---- MODULE Spec2Model ----
\* Model of tools/blink-a-led.py (jallib): the device-file scanner, the pin
\* selector, the oscillator rules of main()/create_sample(), the sample
\* synthesizer build_sample() and the validate/compile pipeline; and of
\* tools/pinmap_create.py: the workers create_pinmap_pic(), their collection
\* in completion order, and the writers of pinmap.py and pinaliases.json.
\*
\* A text line is the sequence of its words (what ln.split() returns); a file
\* is the sequence of its lines.  Words are strings, so that startswith(),
\* substring search and int() are computed on the characters.
EXTENDS Integers, Sequences, FiniteSets, TLC

VARIABLES
  devs,          \* list of device-file names handed to main()
  devfile,       \* directory devdir: device-file name -> lines
  devspec,       \* contents of devicespecific.json: PIC name -> properties
  tools,         \* what the external validator/compiler may answer in this run
  var,           \* global dictionary var      (re-filled by scan_devfile)
  fusedef,       \* global dictionary fusedef  (re-filled by scan_devfile)
  pc,            \* position of main()
  idx,           \* index in devs of the device file being processed
  blink_pin,     \* main(): local blink_pin
  osctype,       \* main(): local osctype
  oscword,       \* main(): local oscword
  sample_count,  \* main(): local sample_count
  current_sample_count, \* main(): local current_sample_count
  ret,           \* create_sample(): where main() goes on after the call
  pending,       \* create_sample(): the samples still to build
  counter,       \* create_sample(): local counter
  pgmname,       \* build_validate_compile_sample(): local pgmname
  cwd,           \* working directory: file name -> contents
  dst,           \* directory dstdir:  file name -> contents
  calls,         \* history: the calls made so far, with their results
  \* pinmap_create.py
  to_do,         \* collect_pinmap(): the submitted calls of create_pinmap_pic
  completed,     \* collect_pinmap(): the futures as_completed() has yielded
  pinmap,        \* the new pinmap: PIC name -> pins with their aliases
  pinmap_old,    \* "from pinmap import pinmap": the current pinmap
  disk,          \* whether fpinmapnew and fpinaliases can be written
  ppc,           \* position of the mainline of pinmap_create.py
  fpinmapnew,    \* the file pinmap.py
  fpinaliases    \* the file pinaliases.json

\* the variables of pinmap_create.py
PinmapState == <<to_do, completed, pinmap, pinmap_old, disk, ppc, fpinmapnew,
                 fpinaliases>>

\* the variables of blink-a-led.py
BlinkState == <<devs, devfile, devspec, tools, var, fusedef, pc, idx, blink_pin,
                osctype, oscword, sample_count, current_sample_count,
                ret, pending, counter, pgmname, cwd, dst, calls>>

vars == <<BlinkState, PinmapState>>

-----------------------------------------------------------------------------
\* Bounds of the model

\* most keywords in the OSC group of a device file of the wide family
MaxOscKwds == 3
\* most pin words in the text of a device file of the pin family
MaxPinWords == 2
\* most auxiliary fuse_def groups in a device file handed to build_sample
MaxAuxGroups == 2
\* largest error or warning count the compiler reports
MaxCount == 1
\* most .pic files in the tree under picdir
MaxFiles == 2

-----------------------------------------------------------------------------
\* Python string and dictionary primitives

\* s in t, for strings
IsSubstr(s, t) ==
  \E k \in 1..(Len(t) - Len(s) + 1) : SubSeq(t, k, k + Len(s) - 1) = s

\* t.startswith(s)
StartsWith(t, s) == Len(t) >= Len(s) /\ SubSeq(t, 1, Len(s)) = s

Range(q) == {q[k] : k \in DOMAIN q}

\* d[k] = v
DictSet(d, k, v) == [x \in DOMAIN d \cup {k} |-> IF x = k THEN v ELSE d[x]]

\* os.remove(name) / shutil.move away from a directory
DictDel(d, k) == [x \in DOMAIN d \ {k} |-> d[x]]

EmptyDict == [x \in {} |-> {}]

LowerChars == "abcdefghijklmnopqrstuvwxyz"
UpperChars == "ABCDEFGHIJKLMNOPQRSTUVWXYZ"

UpperChar(c) ==
  IF \E k \in 1..Len(LowerChars) : SubSeq(LowerChars, k, k) = c
  THEN LET k == CHOOSE j \in 1..Len(LowerChars) : SubSeq(LowerChars, j, j) = c
       IN SubSeq(UpperChars, k, k)
  ELSE c

\* s.upper()
RECURSIVE Upper(_)
Upper(s) ==
  IF Len(s) = 0 THEN s
  ELSE Upper(SubSeq(s, 1, Len(s) - 1)) \o UpperChar(SubSeq(s, Len(s), Len(s)))

\* position of the last "." of s, 0 if none
RECURSIVE LastDot(_, _)
LastDot(s, k) ==
  IF k = 0 THEN 0
  ELSE IF SubSeq(s, k, k) = "." THEN k ELSE LastDot(s, k - 1)

\* os.path.splitext(s)[0]
SplitextRoot(s) ==
  LET k == LastDot(s, Len(s)) IN IF k <= 1 THEN s ELSE SubSeq(s, 1, k - 1)

Digits == "0123456789"

IsDigit(c) == \E k \in 1..Len(Digits) : SubSeq(Digits, k, k) = c

DigitVal(c) == (CHOOSE k \in 1..Len(Digits) : SubSeq(Digits, k, k) = c) - 1

\* int(s) raises ValueError unless s is a decimal numeral
IsInt(s) ==
  /\ Len(s) > 0
  /\ \A k \in 1..Len(s) : IsDigit(SubSeq(s, k, k))

\* int(s)
RECURSIVE IntOf(_)
IntOf(s) ==
  IF Len(s) = 0 THEN 0
  ELSE 10 * IntOf(SubSeq(s, 1, Len(s) - 1)) + DigitVal(SubSeq(s, Len(s), Len(s)))

\* ln.find(" " + w + " ") >= 0 on a line of single-spaced words ending in a
\* newline: w is a word of the line, neither the first nor the last
FindWord(words, w) == \E k \in 2..(Len(words) - 1) : words[k] = w

\* ln.find(s) >= 0 for a string s without blanks
FindStr(words, s) == \E k \in 1..Len(words) : IsSubstr(s, words[k])

-----------------------------------------------------------------------------
\* collect_fusedef(fp): fp is the file f read up to line n - 1.
\* Returns the keyword list, the line the next readline() returns, and whether
\* words[0] raised IndexError (a line without words inside the block).
RECURSIVE collect_fusedef(_, _, _)
collect_fusedef(f, n, kwdlist) ==
  IF n > Len(f)
  THEN [kwds |-> kwdlist, next |-> n, err |-> FALSE]
  ELSE LET words == f[n] IN
       IF Len(words) = 0
       THEN [kwds |-> kwdlist, next |-> n, err |-> TRUE]
       ELSE IF words[1] = "}"
       THEN [kwds |-> kwdlist, next |-> n + 1, err |-> FALSE]
       ELSE collect_fusedef(f, n + 1, Append(kwdlist, words[1]))

\* the key under which scan_devfile stores the keywords of fuse_def <fuse>,
\* "" if the fuse is not one of the selected ones
FuseKey(fuse) ==
  IF StartsWith(fuse, "BROWNOUT") THEN "brownout"
  ELSE IF StartsWith(fuse, "CLKOUTEN") THEN "clkouten"
  ELSE IF StartsWith(fuse, "CPUDIV") THEN "cpudiv"
  ELSE IF StartsWith(fuse, "CSWEN") THEN "cswen"
  ELSE IF StartsWith(fuse, "DEBUG") THEN "debug"
  ELSE IF StartsWith(fuse, "FCMEN") THEN "fcmen"
  ELSE IF StartsWith(fuse, "FOSC2") THEN "fosc2"
  ELSE IF StartsWith(fuse, "ICPRT") THEN "icprt"
  ELSE IF StartsWith(fuse, "IESO") THEN "ieso"
  ELSE IF StartsWith(fuse, "IOSCFS") THEN "ioscfs"
  ELSE IF StartsWith(fuse, "LVP") THEN "lvp"
  ELSE IF StartsWith(fuse, "MCLR") THEN "mclr"
  ELSE IF StartsWith(fuse, "OSC:") \/ fuse = "OSC" THEN "osc"
  ELSE IF StartsWith(fuse, "PLLDIV") THEN "plldiv"
  ELSE IF StartsWith(fuse, "PLLEN") THEN "pllen"
  ELSE IF StartsWith(fuse, "RSTOSC") THEN "rstosc"
  ELSE IF StartsWith(fuse, "USBDIV") THEN "usbdiv"
  ELSE IF StartsWith(fuse, "VREGEN") THEN "vregen"
  ELSE IF StartsWith(fuse, "WDT:") \/ fuse = "WDT" THEN "wdt"
  ELSE IF StartsWith(fuse, "XINST") THEN "xinst"
  ELSE IF StartsWith(fuse, "JTAGEN") THEN "jtagen"
  ELSE IF StartsWith(fuse, "MVECEN") THEN "mvecen"
  ELSE ""

\* the else-branch of scan_devfile: the first marker found in the line
\* decides which entry of var is set
ScanMarker(words, v) ==
  IF FindWord(words, "WDTCON_SWDTEN") THEN DictSet(v, "wdtcon_swdten", TRUE)
  ELSE IF FindWord(words, "USB_BDT_ADDRESS") THEN DictSet(v, "usb_bdt", TRUE)
  ELSE IF FindWord(words, "OSCCON_IRCF") THEN
         IF FindStr(words, "bit*2") THEN DictSet(v, "ircfwidth", 2)
         ELSE IF FindStr(words, "bit*3") THEN DictSet(v, "ircfwidth", 3)
         ELSE IF FindStr(words, "bit*4") THEN DictSet(v, "ircfwidth", 4)
         ELSE v
  ELSE IF FindWord(words, "OSCCON_SCS") THEN DictSet(v, "osccon_scs", TRUE)
  ELSE IF FindWord(words, "OSCCON_SPLLEN") THEN DictSet(v, "osccon_spllen", TRUE)
  ELSE IF FindWord(words, "OSCFRQ_FRQ3") THEN DictSet(v, "oscfrq_frq3", TRUE)
  ELSE IF FindWord(words, "OSCFRQ_HFFRQ") THEN DictSet(v, "oscfrq_hffrq", TRUE)
  ELSE IF FindWord(words, "OSCFRQ_FRQ") THEN DictSet(v, "oscfrq_frq", TRUE)
  ELSE IF FindWord(words, "OSCFRQ_HFFRQ3") THEN DictSet(v, "oscfrq_hffrq3", TRUE)
  ELSE IF FindWord(words, "OSCCON1_NOSC") THEN DictSet(v, "osccon1_nosc", TRUE)
  ELSE IF FindWord(words, "OSCCON1_NDIV") THEN DictSet(v, "osccon1_ndiv", TRUE)
  ELSE IF FindWord(words, "OSCTUNE_PLLEN") THEN DictSet(v, "osctune_pllen", TRUE)
  ELSE v

\* the while loop of scan_devfile from line n on, with var = v, fusedef = fd
RECURSIVE ScanLines(_, _, _, _)

\* fusedef[key] = collect_fusedef(fp), r what collect_fusedef returned; the
\* loop goes on with the line read next
ScanBlock(f, v, fd, key, r) ==
  IF r.err
  THEN [var |-> v, fusedef |-> fd, err |-> TRUE]
  ELSE ScanLines(f, r.next, v, DictSet(fd, key, r.kwds))

ScanLines(f, n, v, fd) ==
  IF n > Len(f)
  THEN [var |-> v, fusedef |-> fd, err |-> FALSE]
  ELSE LET words == f[n] IN
       IF Len(words) = 0 THEN ScanLines(f, n + 1, v, fd)
       ELSE IF words[1] = "--" THEN ScanLines(f, n + 1, v, fd)
       ELSE IF Len(words) > 2 THEN
              IF words[1] = "pragma" /\ words[2] = "fuse_def"
              THEN IF FuseKey(words[3]) # ""
                   THEN ScanBlock(f, v, fd, FuseKey(words[3]),
                                  collect_fusedef(f, n + 1, <<>>))
                   ELSE ScanLines(f, n + 1, v, fd)
              ELSE ScanLines(f, n + 1, ScanMarker(words, v), fd)
       ELSE ScanLines(f, n + 1, v, fd)

\* scan_devfile(devfile): var and fusedef start afresh
scan_devfile(f) == ScanLines(f, 1, [x \in {"ircfwidth"} |-> 0], EmptyDict)

-----------------------------------------------------------------------------
\* find_blinkpin

Ports == <<"A", "B", "C">>
PinNumbers == <<"0", "1", "2", "3", "4", "5", "6", "7">>

\* "pin_%c%d" % (p, q)
PinName(p, q) == "pin_" \o Ports[p] \o PinNumbers[q]

\* s in fstr, fstr the whole text of the file, s without blanks
InText(s, f) == \E n \in 1..Len(f) : FindStr(f[n], s)

\* the candidates in the order of the two nested loops
Candidates ==
  [k \in 1..(Len(Ports) * Len(PinNumbers)) |->
     PinName(((k - 1) \div Len(PinNumbers)) + 1, ((k - 1) % Len(PinNumbers)) + 1)]

\* find_blinkpin taking the first pin whose name occurs, with or without
\* its direction
RECURSIVE PinFromNameOnly(_, _)
PinFromNameOnly(f, k) ==
  IF k > Len(Candidates) THEN ""
  ELSE IF InText(Candidates[k], f) THEN Candidates[k]
       ELSE PinFromNameOnly(f, k + 1)

RECURSIVE PinFrom(_, _)
PinFrom(f, k) ==
  IF k > Len(Candidates) THEN ""
  ELSE IF InText(Candidates[k], f) /\ InText(Candidates[k] \o "_direction", f)
       THEN Candidates[k]
       ELSE PinFrom(f, k + 1)

find_blinkpin(f) == PinFrom(f, 1)

-----------------------------------------------------------------------------
\* build_sample: the text of the sample.  Comment lines and the trailing
\* "-- ..." comments are left out; every other line is kept, as its words.

Words(q) == SelectSeq(q, LAMBDA w : w # "")

\* build_sample naming a sample of an unrecognized oscillator type too
SampleNameAnyType(pic, otype) ==
  IF otype = "HS" THEN pic \o "_blink" \o "_hs"
  ELSE IF otype = "INTOSC" THEN pic \o "_blink" \o "_intosc"
  ELSE IF otype = "HS_USB" THEN pic \o "_blink" \o "_hs_usb"
  ELSE IF otype = "INTOSC_USB" THEN pic \o "_blink" \o "_intosc_usb"
  ELSE pic \o "_blink"

\* pgmname (without extension) for an oscillator type, "" if unrecognized
SampleName(pic, otype) ==
  IF otype = "HS" THEN pic \o "_blink" \o "_hs"
  ELSE IF otype = "INTOSC" THEN pic \o "_blink" \o "_intosc"
  ELSE IF otype = "HS_USB" THEN pic \o "_blink" \o "_hs_usb"
  ELSE IF otype = "INTOSC_USB" THEN pic \o "_blink" \o "_intosc_usb"
  ELSE ""

\* build_sample refusing the type INTOSC only
RefusesOnlyINTOSC(otype, picdata) ==
  /\ otype = "INTOSC"
  /\ "OSCCON_IRCF" \in DOMAIN picdata
  /\ picdata["OSCCON_IRCF"] = "-"

\* the test "no 4 MHz INTOSC" of build_sample
Refuses4MHz(otype, picdata) ==
  /\ StartsWith(otype, "INTOSC")
  /\ "OSCCON_IRCF" \in DOMAIN picdata
  /\ picdata["OSCCON_IRCF"] = "-"

\* fusedef_insert writing its line whether or not the fuse_def was found
fusedef_insertUnchecked(fd, fuse, kwd) ==
  << <<"pragma", "target", Upper(fuse), kwd>> >>

\* fusedef_insert(fuse, kwd, cmt): the lines it writes
fusedef_insert(fd, fuse, kwd) ==
  IF fuse \in DOMAIN fd /\ kwd \in Range(fd[fuse])
  THEN << <<"pragma", "target", Upper(fuse), kwd>> >>
  ELSE <<>>

\* "oscillator selection"
OscLines(otype, oword, v, fd) ==
  IF otype = "HS" THEN
       << <<"pragma", "target", "clock", "20_000_000">>,
          Words(<<"pragma", "target", "OSC", oword>>) >>
       \o (IF "fosc2" \in DOMAIN fd
           THEN << <<"pragma", "target", "FOSC2", "ON">> >> ELSE <<>>)
       \o (IF "rstosc" \in DOMAIN fd /\ "EXT1X" \in Range(fd["rstosc"])
           THEN << <<"pragma", "target", "RSTOSC", "EXT1X">> >> ELSE <<>>)
       \o (IF oword = "PRI"
           THEN << <<"pragma", "target", "POSCMD", "HS">> >> ELSE <<>>)
  ELSE IF otype = "INTOSC" \/ otype = "" THEN
       << <<"pragma", "target", "clock", "4_000_000">> >>
       \o (IF oword # "F4MHZ"
           THEN << Words(<<"pragma", "target", "OSC", oword>>) >> ELSE <<>>)
       \o fusedef_insert(fd, "fosc2", "OFF")
       \o fusedef_insert(fd, "ioscfs", "F4MHZ")
       \o (IF "oscfrq_frq3" \in DOMAIN v
           THEN fusedef_insert(fd, "rstosc", "HFINTOSC_64MHZ")
           ELSE IF "oscfrq" \in DOMAIN v \/ "oscfrq_hffrq" \in DOMAIN v
           THEN fusedef_insert(fd, "rstosc", "HFINT32")
           ELSE IF "oscfrq_frq" \in DOMAIN v
           THEN fusedef_insert(fd, "rstosc", "HFINTOSC_32MHZ")
           ELSE <<>>)
  ELSE IF otype = "HS_USB" THEN
       << <<"pragma", "target", "clock", "48_000_000">>,
          Words(<<"pragma", "target", "OSC", oword>>) >>
  ELSE IF otype = "INTOSC_USB" THEN
       << <<"pragma", "target", "clock", "48_000_000">>,
          Words(<<"pragma", "target", "OSC", oword>>) >>
       \o fusedef_insert(fd, "fosc2", "OFF")
  ELSE <<>>

\* "other OSC related fuse_defs" and "the easy fuse_defs"
WdtWord(fd) ==
  IF "wdt" \in DOMAIN fd
  THEN IF "DISABLED" \in Range(fd["wdt"]) THEN "DISABLED"
       ELSE "CONTROL"          \* elif ("CONTROL", fusedef["wdt"]): a tuple, always true
  ELSE ""

FuseLines(otype, fd, picdata) ==
  (IF "pllen" \in DOMAIN fd
   THEN IF otype = "INTOSC"
        THEN IF "PLLEN" \in DOMAIN picdata
             THEN fusedef_insert(fd, "pllen", "ENABLED")
             ELSE fusedef_insert(fd, "pllen", "DISABLED")
        ELSE IF otype = "INTOSC_USB"
        THEN fusedef_insert(fd, "pllen", "ENABLED")
        ELSE fusedef_insert(fd, "pllen", "DISABLED")
   ELSE <<>>)
  \o (IF "plldiv" \in DOMAIN fd
      THEN IF otype = "HS_USB" THEN fusedef_insert(fd, "plldiv", "P5")
           ELSE IF otype = "INTOSC_USB" THEN fusedef_insert(fd, "plldiv", "P2")
           ELSE fusedef_insert(fd, "plldiv", "P1")
      ELSE <<>>)
  \o fusedef_insert(fd, "cpudiv", "P1")
  \o (IF otype = "HS_USB" THEN fusedef_insert(fd, "usbdiv", "P2") ELSE <<>>)
  \o fusedef_insert(fd, "clkouten", "DISABLED")
  \o (IF WdtWord(fd) # ""
      THEN << <<"pragma", "target", "WDT", WdtWord(fd)>> >> ELSE <<>>)
  \o fusedef_insert(fd, "xinst", "DISABLED")
  \o fusedef_insert(fd, "debug", "DISABLED")
  \o fusedef_insert(fd, "brownout", "DISABLED")
  \o fusedef_insert(fd, "fcmen", "DISABLED")
  \o fusedef_insert(fd, "cswen", "ENABLED")
  \o fusedef_insert(fd, "ieso", "DISABLED")
  \o fusedef_insert(fd, "vregen", "ENABLED")
  \o fusedef_insert(fd, "lvp", "ENABLED")
  \o fusedef_insert(fd, "mclr", "EXTERNAL")
  \o fusedef_insert(fd, "mvecen", "DISABLED")
  \o fusedef_insert(fd, "jtagen", "DISABLED")

Flag(v, key, line) == IF key \in DOMAIN v THEN <<line>> ELSE <<>>

\* build_sample never initializing OSCCON_IRCF
IrcfInitNever(v, picdata) == <<>>

\* if (var["ircfwidth"] > 0) & ("OSCCON_IRCF" in picdata): the line written
IrcfInit(v, picdata) ==
  IF "ircfwidth" \in DOMAIN v /\ v["ircfwidth"] > 0 /\ "OSCCON_IRCF" \in DOMAIN picdata
  THEN << <<"OSCCON_IRCF", "=", "0b" \o picdata["OSCCON_IRCF"]>> >>
  ELSE <<>>

\* the register initializations
RegLines(otype, v, fd, picdata) ==
  (IF WdtWord(fd) = "CONTROL"
   THEN Flag(v, "wdtcon_swdten", <<"WDTCON_SWDTEN", "=", "OFF">>) ELSE <<>>)
  \o (IF otype = "HS" THEN
           Flag(v, "osccon_scs", <<"OSCCON_SCS", "=", "0">>)
           \o Flag(v, "osctune_pllen", <<"OSCTUNE_PLLEN", "=", "FALSE">>)
      ELSE IF otype = "INTOSC" THEN
           Flag(v, "osccon_scs", <<"OSCCON_SCS", "=", "0">>)
           \o (IF "oscfrq_frq3" \in DOMAIN v
               THEN << <<"OSCFRQ_HFFRQ", "=", "0b0010">> >>
               ELSE IF "oscfrq_hffrq3" \in DOMAIN v
               THEN IF "osccon1_ndiv" \in DOMAIN v
                    THEN << <<"OSCCON1_NDIV", "=", "0b0011">> >>
                    ELSE << <<"OSCFRQ_HFFRQ", "=", "0b0011">>,
                            <<"OSCCON1_NOSC", "=", "0b110">> >>
               ELSE IF "oscfrq_hffrq" \in DOMAIN v
               THEN << <<"OSCFRQ_HFFRQ", "=", "0b010">> >>
               ELSE IF "oscfrq_frq" \in DOMAIN v
               THEN << <<"OSCFRQ_FRQ", "=", "0b010">> >>
               ELSE <<>>)
           \o IrcfInit(v, picdata)
           \o Flag(v, "osctune_pllen", <<"OSCTUNE_PLLEN", "=", "FALSE">>)
           \o Flag(v, "osccon_spllen", <<"OSCCON_SPLLEN", "=", "FALSE">>)
      ELSE IF otype = "HS_USB" THEN
           Flag(v, "osccon_scs", <<"OSCCON_SCS", "=", "0">>)
           \o Flag(v, "osctune_pllen", <<"OSCTUNE_PLLEN", "=", "TRUE">>)
      ELSE IF otype = "INTOSC_USB" THEN
           Flag(v, "osccon_scs", <<"OSCCON_SCS", "=", "0">>)
           \o Flag(v, "osctune_pllen", <<"OSCTUNE_PLLEN", "=", "TRUE">>)
      ELSE <<>>)

\* "the actual blink-a-led program code"
BlinkLines(pin) ==
  << <<"enable_digital_io()">>,
     <<"alias", "led", "is", pin>>,
     <<pin \o "_direction", "=", "OUTPUT">>,
     <<"forever", "loop">>,
     <<"led", "=", "ON">>,
     <<"_usec_delay(100_000)">>,
     <<"led", "=", "OFF">>,
     <<"_usec_delay(400_000)">>,
     <<"end", "loop">> >>

SampleText(pic, pin, otype, oword, v, fd, picdata) ==
  << <<"include", pic>> >>
  \o OscLines(otype, oword, v, fd)
  \o FuseLines(otype, fd, picdata)
  \o RegLines(otype, v, fd, picdata)
  \o BlinkLines(pin)

-----------------------------------------------------------------------------
\* The functions of the pipeline, as functions of the directories they
\* change.  No function of the script catches KeyError, IndexError or
\* ValueError: such an exception ends the run (ret = "raise").

\* s[:-k]
DropLast(s, k) == SubSeq(s, 1, Len(s) - k)

\* if os.path.exists(name): os.remove(name)
RemoveIfExists(d, name) == [x \in DOMAIN d \ {name} |-> d[x]]

\* what the validator prints when it fails
ValidatorOutput == << <<"validation", "failed">> >>

\* vlog of validate_jalfile
VlogName(jalfile) == DropLast(jalfile, 4) \o ".vlog"

\* validate_jalfile(jalfile): the directory dstdir afterwards; ok: the
\* validator exits with status 0, and validate_jalfile returns ok
validate_jalfile(d, jalfile, ok) ==
  IF ok THEN RemoveIfExists(d, VlogName(jalfile))
  ELSE DictSet(RemoveIfExists(d, VlogName(jalfile)), VlogName(jalfile), ValidatorOutput)

\* fhex, fasm, flog of compile_sample
HexName(pgm) == SplitextRoot(pgm) \o ".hex"
AsmName(pgm) == SplitextRoot(pgm) \o ".asm"
LogName(pgm) == DropLast(pgm, 3) \o "log"

\* the compiler writes its -hex and -asm outputs
WriteIf(b, d, name) == IF b THEN DictSet(d, name, <<>>) ELSE d

CompilerWrites(d, pgm, o) ==
  WriteIf("asm" \in o.wrote,
          WriteIf("hex" \in o.wrote, d, HexName(pgm)),
          AsmName(pgm))

\* int(loglist[-4]) or int(loglist[-2]) raises IndexError or ValueError
Unreadable(loglist) ==
  \/ Len(loglist) < 4
  \/ ~IsInt(loglist[Len(loglist) - 3])
  \/ ~IsInt(loglist[Len(loglist) - 1])

numerrors(loglist) == IntOf(loglist[Len(loglist) - 3])
numwarnings(loglist) == IntOf(loglist[Len(loglist) - 1])

\* compile_sample returning False without saving the compiler output
CompileFailedNoLog(c, d, pgm, o) ==
  [cwd |-> DictDel(c, pgm),
   dst |-> DictSet(d, pgm, c[pgm]),
   ret |-> "False"]

\* compile_sample: the two ways out that return False
CompileFailed(c, d, pgm, o) ==
  [cwd |-> DictDel(c, pgm),
   dst |-> DictSet(DictSet(d, pgm, c[pgm]), LogName(pgm), <<o.out>>),
   ret |-> "False"]

\* compile_sample: no errors and no warnings
CompileSucceeded(c, d, pgm) ==
  [cwd |-> DictDel(c, pgm),
   dst |-> RemoveIfExists(RemoveIfExists(DictSet(d, pgm, c[pgm]),
                                         HexName(pgm)),
                          AsmName(pgm)),
   ret |-> "True"]

\* compile_sample accepting a compilation with warnings
CompileResultErrorsOnly(c, d, pgm, o) ==
  IF o.exit # 0 THEN CompileFailed(c, d, pgm, o)
  ELSE IF Unreadable(o.out) THEN [cwd |-> c, dst |-> d, ret |-> "raise"]
  ELSE IF numerrors(o.out) = 0
  THEN CompileSucceeded(c, d, pgm)
  ELSE CompileFailed(c, d, pgm, o)

\* compile_sample from the try statement on, d the directory dstdir after
\* the compiler ran
CompileResult(c, d, pgm, o) ==
  IF o.exit # 0 THEN CompileFailed(c, d, pgm, o)      \* CalledProcessError
  ELSE IF Unreadable(o.out) THEN [cwd |-> c, dst |-> d, ret |-> "raise"]
  ELSE IF numerrors(o.out) = 0 /\ numwarnings(o.out) = 0
  THEN CompileSucceeded(c, d, pgm)
  ELSE CompileFailed(c, d, pgm, o)

\* compile_sample leaving an earlier compiler report in place
compile_sampleKeepingLog(c, d, pgm, o) ==
  CompileResult(c, CompilerWrites(RemoveIfExists(d, pgm), pgm, o), pgm, o)

\* compile_sample("TEST", pgmname), pgm = pgmname; c, d: the working directory and dstdir;
\* o: what the compiler does (o.exit its exit status, o.out the words it
\* prints, o.wrote which of its -hex and -asm outputs it writes)
compile_sample(c, d, pgm, o) ==
  CompileResult(c,
                CompilerWrites(RemoveIfExists(RemoveIfExists(d, LogName(pgm)),
                                              pgm),
                               pgm, o),
                pgm, o)

\* build_sample(pic, pin, osctype, oscword): the working directory afterwards
\* and what is returned: the program name, "None", or "raise" for KeyError
build_sample(c, pic, pin, otype, oword, v, fd, ds) ==
  IF SampleName(pic, otype) = "" THEN [cwd |-> c, ret |-> "None"]
  ELSE IF Upper(pic) \notin DOMAIN ds THEN [cwd |-> c, ret |-> "raise"]
  ELSE IF Refuses4MHz(otype, ds[Upper(pic)]) THEN [cwd |-> c, ret |-> "None"]
  ELSE [cwd |-> DictSet(c, SampleName(pic, otype) \o ".jal",
                        SampleText(pic, pin, otype, oword, v, fd, ds[Upper(pic)])),
        ret |-> SampleName(pic, otype) \o ".jal"]

Variant(otype, oword) == [osctype |-> otype, oscword |-> oword]

\* create_sample(), "elif ("osc" in fusedef)": the internal oscillator
\* sample, at most one
InternalVariant(fd) ==
  IF "INTOSC_NOCLKOUT" \in Range(fd["osc"])
  THEN << Variant("INTOSC", "INTOSC_NOCLKOUT") >>
  ELSE IF "INTOSC_NOCLKOUT_USB_HS" \in Range(fd["osc"])
  THEN << Variant("INTOSC", "INTOSC_NOCLKOUT_USB_HS") >>
  ELSE IF "INTOSC_NOCLKOUT_PLL" \in Range(fd["osc"])
  THEN << Variant("INTOSC_USB", "INTOSC_NOCLKOUT_PLL") >>
  ELSE IF "OFF" \in Range(fd["osc"])
  THEN << Variant("INTOSC", "OFF") >>
  ELSE IF "fosc2" \in DOMAIN fd
  THEN IF "ON" \in Range(fd["fosc2"])
       THEN IF "EC_CLKOUT_PLL" \in Range(fd["osc"])
            THEN << Variant("INTOSC", "EC_CLKOUT_PLL") >>
            ELSE IF "INTOSC_NOCLKOUT_PLL" \in Range(fd["osc"])
            THEN << Variant("INTOSC", "INTOSC_NOCLKOUT") >>
            ELSE <<>>
       ELSE <<>>
  ELSE <<>>

\* create_sample(), "The USB variant"
UsbVariant(v, fd) ==
  IF "HS_PLL" \in Range(fd["osc"]) /\ "usb_bdt" \in DOMAIN v
  THEN << Variant("HS_USB", "HS_PLL") >>
  ELSE <<>>

\* create_sample() building its HS sample with the keyword HS whatever
\* oscword holds
SampleVariantsFixedWord(otype, oword, v, fd) ==
  IF otype = "HS" THEN << Variant(otype, "HS") >>
  ELSE IF "ioscfs" \in DOMAIN fd /\ "osc" \notin DOMAIN fd
  THEN IF "F4MHZ" \in Range(fd["ioscfs"])
       THEN << Variant("INTOSC", "F4MHZ") >> ELSE <<>>
  ELSE IF "osc" \in DOMAIN fd
  THEN InternalVariant(fd) \o UsbVariant(v, fd)
  ELSE <<>>

\* create_sample() passing the oscword of main() for the sample of a chip
\* without OSC group too
SampleVariantsOscword(otype, oword, v, fd) ==
  IF otype = "HS" THEN << Variant(otype, oword) >>
  ELSE IF "ioscfs" \in DOMAIN fd /\ "osc" \notin DOMAIN fd
  THEN IF "F4MHZ" \in Range(fd["ioscfs"])
       THEN << Variant("INTOSC", oword) >> ELSE <<>>
  ELSE IF "osc" \in DOMAIN fd
  THEN InternalVariant(fd) \o UsbVariant(v, fd)
  ELSE <<>>

\* create_sample(): the samples it builds, in order, when the enclosing
\* main() holds osctype = otype and oscword = oword
SampleVariants(otype, oword, v, fd) ==
  IF otype = "HS" THEN << Variant(otype, oword) >>
  ELSE IF "ioscfs" \in DOMAIN fd /\ "osc" \notin DOMAIN fd
  THEN IF "F4MHZ" \in Range(fd["ioscfs"])
       THEN << Variant("INTOSC", "F4MHZ") >> ELSE <<>>
  ELSE IF "osc" \in DOMAIN fd
  THEN InternalVariant(fd) \o UsbVariant(v, fd)
  ELSE <<>>

-----------------------------------------------------------------------------
\* The runs that are checked: device files, devicespecific.json and the
\* behaviour of the external tools.

\* lines of a device file
KeywordLines(kwds) == [k \in 1..Len(kwds) |-> <<kwds[k], "=", "0x0">>]

FuseBlock(name, kwds) ==
  << <<"pragma", "fuse_def", name, "0x7", "{">> >>
  \o KeywordLines(kwds)
  \o << <<"}">> >>

VarLine(type, name) == <<"var", "volatile", type, name, "at", "0x0">>

AliasLine(name) == <<"alias", name, "is", "x">>

TitleLine == <<"--", "Title:", "Device", "file">>

UsbLine == <<"const", "word", "USB_BDT_ADDRESS", "=", "0x0400">>

IrcfLine == VarLine("bit*2", "OSCCON_IRCF")

GoodPins == << VarLine("bit", "pin_A0"), AliasLine("pin_A0_direction") >>

OscOrder ==
  <<"OFF", "INTOSC_NOCLKOUT", "INTOSC_NOCLKOUT_USB_HS", "INTOSC_NOCLKOUT_PLL",
    "EC_CLKOUT_PLL", "HSH", "PRI", "HS", "HS_PLL">>

SeqOf(order, S) == SelectSeq(order, LAMBDA k : k \in S)

Grow(less, S) == less \cup {T \cup {x} : T \in less, x \in S}

\* the subsets of S of at most k elements
RECURSIVE SubsetsUpTo(_, _)
SubsetsUpTo(S, k) == IF k = 0 THEN {{}} ELSE Grow(SubsetsUpTo(S, k - 1), S)

\* the blocks of a device file: none, or one block of the given keywords
Blocks(name, kwdlists) == {<<>>} \cup {FuseBlock(name, k) : k \in kwdlists}

\* what the compiler may do with one sample
CompilerDoes(exit, out, wrote) == [exit |-> exit, out |-> out, wrote |-> wrote]

GoodReport == <<"0", "errors,", "0", "warnings">>

\* the last line of the compiler's report
Report(e, n) == <<"jal", ToString(e), "errors,", ToString(n), "warnings">>

\* what the compiler may print when it exits with status 0
Reports ==
  {Report(e, n) : e \in 0..MaxCount, n \in 0..MaxCount}
  \cup {<<"Segmentation", "fault">>, <<"jal", "no", "errors,", "no", "warnings">>}

Written == {{}, {"hex", "asm"}}

GoodTools == [valid |-> {TRUE},
              compiler |-> {CompilerDoes(0, GoodReport, {"hex", "asm"})}]

\* the validator answers either way; the compiler succeeds, warns, exits
\* with a nonzero status or prints no report
FewTools ==
  [valid |-> BOOLEAN,
   compiler |-> {CompilerDoes(0, GoodReport, {"hex", "asm"}),
                 CompilerDoes(0, Report(0, 1), {"hex", "asm"}),
                 CompilerDoes(1, Report(1, 0), {}),
                 CompilerDoes(0, <<"Segmentation", "fault">>, {})}]

AnyTools ==
  [valid |-> BOOLEAN,
   compiler |->
     {CompilerDoes(1, Report(e, n), wr) :
        e \in 1..MaxCount, n \in 0..MaxCount, wr \in Written}
     \cup {CompilerDoes(0, out, wr) : out \in Reports, wr \in Written}]

Pic1 == "16f1707"
Pic2 == "18f4550"
Dev1 == Pic1 \o ".jal"
Pic3 == "16f877a"
Dev2 == Pic2 \o ".jal"
Dev3 == Pic3 \o ".jal"

NoIrcf == EmptyDict
Ircf(value) == [x \in {"OSCCON_IRCF"} |-> value]

Run(dv, files, ds, tl) == [devs |-> dv, devfile |-> files, devspec |-> ds, tools |-> tl]

OneFile(name, lines) == [x \in {name} |-> lines]

\* one device file with any OSC group of at most MaxOscKwds keywords; the
\* tools find nothing wrong
WideRuns ==
  {Run(<<Dev1>>,
       OneFile(Dev1, <<TitleLine>> \o groups \o usb \o GoodPins),
       [x \in {Upper(Pic1)} |-> Ircf("1101")],
       GoodTools) :
     groups \in
       {FuseBlock("OSC:4", SeqOf(OscOrder, S)) \o fosc2 :
          S \in SubsetsUpTo(Range(OscOrder), MaxOscKwds),
          fosc2 \in Blocks("FOSC2", {<<"ON", "OFF">>, <<"OFF">>})}
       \cup {fosc2 \o ioscfs :
               fosc2 \in Blocks("FOSC2", {<<"ON", "OFF">>}),
               ioscfs \in Blocks("IOSCFS", {<<"F4MHZ", "F8MHZ">>, <<"F8MHZ">>})},
     usb \in {<<>>, <<UsbLine>>}}

\* one device file from a catalogue
CatalogueOsc ==
  {<<"INTOSC_NOCLKOUT">>, <<"INTOSC_NOCLKOUT", "HS">>, <<"OFF", "INTOSC_NOCLKOUT">>,
   <<"OFF", "INTOSC_NOCLKOUT_PLL", "HS_PLL">>, <<"HS", "HS_PLL">>}

CataloguePins ==
  {<<>>, GoodPins,
   << VarLine("bit", "pin_A0"), VarLine("bit", "pin_B3"), AliasLine("pin_B3_direction") >>}

CatalogueRuns ==
  {Run(<<Dev1>>,
       OneFile(Dev1, <<TitleLine>> \o osc \o ioscfs \o ircf \o <<UsbLine>> \o pins),
       ds, FewTools) :
     osc \in Blocks("OSC:4", CatalogueOsc),
     ioscfs \in Blocks("IOSCFS", {<<"F4MHZ", "F8MHZ">>}),
     ircf \in {<<>>, <<IrcfLine>>},
     pins \in CataloguePins,
     ds \in {EmptyDict} \cup {[x \in {Upper(Pic1)} |-> d] :
                                 d \in {NoIrcf, Ircf("-"), Ircf("1101")}}}

\* two device files; the tools answer anything (the compiler exits with a
\* nonzero status only when it reports errors)
BatchFiles ==
  {<<TitleLine>> \o osc \o GoodPins :
     osc \in Blocks("OSC", {<<"HS">>, <<"INTOSC_NOCLKOUT">>})}
  \cup {<<TitleLine>> \o FuseBlock("OSC", <<"HS">>) \o <<VarLine("bit", "pin_A0")>>}

BatchRuns ==
  {Run(<<Dev1, Dev2>>,
       [x \in {Dev1, Dev2} |-> IF x = Dev1 THEN f1 ELSE f2],
       [x \in {Upper(Pic1), Upper(Pic2)} |-> IF x = Upper(Pic1) THEN d1 ELSE NoIrcf],
       AnyTools) :
     f1 \in BatchFiles, f2 \in BatchFiles, d1 \in {NoIrcf, Ircf("-")}}

\* one device file with at most MaxPinWords names of the first, a middle
\* and the last pin of each port in its text, or with the direction names of
\* two pins
PinWords ==
  {PinName(p, q) : p \in DOMAIN Ports, q \in {1, 4, Len(PinNumbers)}}
  \cup {PinName(p, q) \o "_direction" : p \in DOMAIN Ports, q \in {1, 4, Len(PinNumbers)}}

DirectionPairs ==
  {{Candidates[j] \o "_direction", Candidates[k] \o "_direction"} :
     j \in DOMAIN Candidates, k \in DOMAIN Candidates}

RECURSIVE SetToSeq(_)
SetToSeq(S) ==
  IF S = {} THEN <<>>
  ELSE LET x == CHOOSE y \in S : TRUE IN <<x>> \o SetToSeq(S \ {x})

AliasLines(names) == [k \in 1..Len(names) |-> AliasLine(names[k])]

PinRuns ==
  {Run(<<Dev1>>,
       OneFile(Dev1, <<TitleLine>> \o FuseBlock("OSC", <<"HS">>) \o AliasLines(SetToSeq(S))),
       [x \in {Upper(Pic1)} |-> NoIrcf],
       GoodTools) :
     S \in SubsetsUpTo(PinWords, MaxPinWords) \cup DirectionPairs}

\* a fuse_def block as it should be, without its closing line, and with a
\* line without words before or after its keywords
BlockHeader(name) == <<"pragma", "fuse_def", name, "0x7", "{">>
BlankLine == <<>>

BrokenBlocks(name, kwds) ==
  {FuseBlock(name, kwds),
   <<BlockHeader(name)>> \o KeywordLines(kwds),
   <<BlockHeader(name), BlankLine>> \o KeywordLines(kwds) \o << <<"}">> >>,
   <<BlockHeader(name)>> \o KeywordLines(kwds) \o << BlankLine, <<"}">> >>}

\* one device file with such an OSC block before or after its pins
ScanRuns ==
  {Run(<<Dev1>>,
       OneFile(Dev1, <<TitleLine>> \o (IF first THEN block \o GoodPins
                                                ELSE GoodPins \o block)),
       [x \in {Upper(Pic1)} |-> Ircf("1101")],
       GoodTools) :
     block \in BrokenBlocks("OSC", <<"HS">>)
               \cup BrokenBlocks("OSC", <<"INTOSC_NOCLKOUT", "HS">>),
     first \in BOOLEAN}

\* three device files, the first with more groups and markers than the
\* last; the validator answers either way, so any of them may be skipped
RichFile ==
  <<TitleLine>> \o FuseBlock("OSC", <<"HS">>) \o FuseBlock("WDT", <<"ON", "OFF">>)
  \o <<IrcfLine, UsbLine>> \o GoodPins

PoorFile == <<TitleLine>> \o FuseBlock("OSC", <<"INTOSC_NOCLKOUT">>) \o GoodPins

SkipRuns ==
  {Run(<<Dev1, Dev2, Dev3>>,
       [x \in {Dev1, Dev2, Dev3} |->
          IF x = Dev1 THEN RichFile ELSE IF x = Dev2 THEN f2 ELSE PoorFile],
       [x \in {Upper(Pic1), Upper(Pic2), Upper(Pic3)} |-> Ircf("1101")],
       [valid |-> BOOLEAN, compiler |-> GoodTools.compiler]) :
     f2 \in {RichFile, PoorFile}}

Runs ==
  WideRuns \cup CatalogueRuns \cup BatchRuns \cup PinRuns \cup ScanRuns \cup SkipRuns

-----------------------------------------------------------------------------
\* main(runtype, devs), runtype = "TEST" ("PROD" exits before main is called)

\* a file that was not opened for writing
Absent == [state |-> "absent", pics |-> <<>>]

\* pinmap_create.py is not running
PinmapIdle ==
  /\ to_do = <<>>
  /\ completed = {}
  /\ pinmap = EmptyDict
  /\ pinmap_old = EmptyDict
  /\ disk = TRUE
  /\ ppc = "idle"
  /\ fpinmapnew = Absent
  /\ fpinaliases = Absent

Init ==
  /\ PinmapIdle
  /\ \E r \in Runs :
       /\ devs = r.devs
       /\ devfile = r.devfile
       /\ devspec = r.devspec
       /\ tools = r.tools
  /\ var = EmptyDict
  /\ fusedef = EmptyDict
  /\ pc = "for"
  /\ idx = 1
  /\ blink_pin = ""
  /\ osctype = ""
  /\ oscword = ""
  /\ sample_count = 0
  /\ current_sample_count = 0
  /\ ret = ""
  /\ pending = <<>>
  /\ counter = 0
  /\ pgmname = ""
  /\ cwd = EmptyDict
  /\ dst = EmptyDict
  /\ calls = <<>>

Inputs == <<devs, devfile, devspec, tools>>
Scanned == <<var, fusedef, blink_pin>>
MainLocals == <<idx, osctype, oscword, sample_count, current_sample_count>>
SampleLocals == <<ret, pending, counter, pgmname>>
Files == <<cwd, dst>>

NoTool == CompilerDoes(0, <<>>, {})

\* an entry of the history: the function called, its file or PIC argument,
\* its oscillator arguments, what it returned ("raise": an exception
\* escaped), and what the external tool it ran did
Call(fn, file, otype, oword, result, tool) ==
  [fn |-> fn, file |-> file, osctype |-> otype, oscword |-> oword,
   ret |-> result, tool |-> tool]

BoolStr(b) == IF b THEN "True" ELSE "False"

\* main() scanning a device file whatever its validation says
ValidateDeviceIgnored ==
  /\ pc = "for" /\ idx <= Len(devs)
  /\ \E ok \in tools.valid :
       /\ dst' = validate_jalfile(dst, devs[idx], ok)
       /\ calls' = Append(calls, Call("validate_jalfile", devs[idx], "", "",
                                 BoolStr(ok), NoTool))
       /\ pc' = "scan" /\ idx' = idx
  /\ UNCHANGED <<PinmapState, Inputs, Scanned, osctype, oscword, sample_count,
                 current_sample_count, SampleLocals, cwd>>

\* for dev in devs: ... if (not validate_jalfile(jalfile)): continue
ValidateDevice ==
  /\ pc = "for" /\ idx <= Len(devs)
  /\ \E ok \in tools.valid :
       /\ dst' = validate_jalfile(dst, devs[idx], ok)
       /\ calls' = Append(calls, Call("validate_jalfile", devs[idx], "", "",
                                 BoolStr(ok), NoTool))
       /\ IF ok THEN pc' = "scan" /\ idx' = idx
                ELSE pc' = "for" /\ idx' = idx + 1
  /\ UNCHANGED <<PinmapState, Inputs, Scanned, osctype, oscword, sample_count,
                 current_sample_count, SampleLocals, cwd>>

\* return sample_count
Return ==
  /\ pc = "for" /\ idx > Len(devs)
  /\ pc' = "done"
  /\ UNCHANGED <<PinmapState, Inputs, Scanned, MainLocals, SampleLocals, Files, calls>>

\* what scan_devfile returns for the device file being processed
ScanResult == scan_devfile(devfile[devs[idx]])

\* scan_devfile filling var and fusedef without clearing them first
Merged(old, new) ==
  [x \in DOMAIN old \cup DOMAIN new |-> IF x \in DOMAIN new THEN new[x] ELSE old[x]]

ScanDeviceMerging ==
  /\ pc = "scan"
  /\ var' = Merged(var, ScanResult.var)
  /\ fusedef' = Merged(fusedef, ScanResult.fusedef)
  /\ pc' = IF ScanResult.err THEN "raised" ELSE "pin"
  /\ UNCHANGED <<PinmapState, Inputs, blink_pin, MainLocals, SampleLocals, Files, calls>>

\* var = scan_devfile(dev)
ScanDevice ==
  /\ pc = "scan"
  /\ var' = ScanResult.var
  /\ fusedef' = ScanResult.fusedef
  /\ pc' = IF ScanResult.err THEN "raised" ELSE "pin"
  /\ UNCHANGED <<PinmapState, Inputs, blink_pin, MainLocals, SampleLocals, Files, calls>>

\* blink_pin = find_blinkpin(dev); if (blink_pin == ""): continue
FindPin ==
  /\ pc = "pin"
  /\ blink_pin' = find_blinkpin(devfile[devs[idx]])
  /\ calls' = Append(calls, Call("find_blinkpin", devs[idx], "", "", blink_pin', NoTool))
  /\ IF blink_pin' = "" THEN pc' = "for" /\ idx' = idx + 1
                        ELSE pc' = "osc" /\ idx' = idx
  /\ UNCHANGED <<PinmapState, Inputs, var, fusedef, osctype, oscword, sample_count,
                 current_sample_count, SampleLocals, Files>>

\* osctype = otype; oscword = oword; ... create_sample(): the call, up to
\* the choice of the samples to build
CallCreateSample(otype, oword, next) ==
  /\ osctype' = otype
  /\ oscword' = oword
  /\ pending' = SampleVariants(otype, oword, var, fusedef)
  /\ counter' = 0
  /\ ret' = next
  /\ pc' = "create_sample"

\* if (keyword in fusedef["osc"]): osctype = ...; oscword = ...; create_sample()
Rule(keyword, otype, next) ==
  IF keyword \in Range(fusedef["osc"])
  THEN CallCreateSample(otype, keyword, next)
  ELSE /\ pc' = next
       /\ UNCHANGED <<osctype, oscword, pending, counter, ret>>

\* if ("osc" not in fusedef): no fusedef osc at all
NoOsc ==
  /\ pc = "osc" /\ "osc" \notin DOMAIN fusedef
  /\ current_sample_count' = sample_count
  /\ CallCreateSample("INTOSC",
                      IF "ioscfs" \in DOMAIN fusedef /\ "f4mhz" \in DOMAIN var
                      THEN "f4mhz" ELSE "",
                      "end")
  /\ UNCHANGED <<PinmapState, Inputs, Scanned, idx, sample_count, pgmname, Files, calls>>

RuleOFF ==
  /\ pc = "osc" /\ "osc" \in DOMAIN fusedef
  /\ current_sample_count' = sample_count
  /\ Rule("OFF", "INTOSC", "intosc")
  /\ UNCHANGED <<PinmapState, Inputs, Scanned, idx, sample_count, pgmname, Files, calls>>

RuleINTOSC ==
  /\ pc = "intosc"
  /\ Rule("INTOSC_NOCLKOUT", "INTOSC", "hsh")
  /\ UNCHANGED <<PinmapState, Inputs, Scanned, idx, sample_count, current_sample_count,
                 pgmname, Files, calls>>

RuleHSH ==
  /\ pc = "hsh"
  /\ Rule("HSH", "HS", "pri")
  /\ UNCHANGED <<PinmapState, Inputs, Scanned, idx, sample_count, current_sample_count,
                 pgmname, Files, calls>>

RulePRI ==
  /\ pc = "pri"
  /\ Rule("PRI", "HS", "hs")
  /\ UNCHANGED <<PinmapState, Inputs, Scanned, idx, sample_count, current_sample_count,
                 pgmname, Files, calls>>

RuleHS ==
  /\ pc = "hs"
  /\ Rule("HS", "HS", "end")
  /\ UNCHANGED <<PinmapState, Inputs, Scanned, idx, sample_count, current_sample_count,
                 pgmname, Files, calls>>

\* what build_sample returns for the next sample of create_sample
Built ==
  build_sample(cwd, SplitextRoot(devs[idx]), blink_pin, pending[1].osctype,
               pending[1].oscword, var, fusedef, devspec)

\* build_validate_compile_sample: pgmname = build_sample(...);
\* if (pgmname == None): return False
BuildSample ==
  /\ pc = "create_sample" /\ pending # <<>>
  /\ cwd' = Built.cwd
  /\ calls' = Append(calls, Call("build_sample", SplitextRoot(devs[idx]),
                                 pending[1].osctype, pending[1].oscword,
                                 Built.ret, NoTool))
  /\ IF Built.ret = "raise"
     THEN pc' = "raised" /\ UNCHANGED <<pending, pgmname>>
     ELSE IF Built.ret = "None"
     THEN pc' = "create_sample" /\ pending' = Tail(pending) /\ UNCHANGED pgmname
     ELSE pc' = "validate" /\ pgmname' = Built.ret /\ UNCHANGED pending
  /\ UNCHANGED <<PinmapState, Inputs, Scanned, MainLocals, ret, counter, dst>>

\* build_validate_compile_sample compiling whatever validate_jalfile says
ValidateSampleIgnored ==
  /\ pc = "validate"
  /\ \E ok \in tools.valid :
       /\ dst' = validate_jalfile(dst, pgmname, ok)
       /\ calls' = Append(calls, Call("validate_jalfile", pgmname, "", "",
                                 BoolStr(ok), NoTool))
       /\ pc' = "compile" /\ UNCHANGED pending
  /\ UNCHANGED <<PinmapState, Inputs, Scanned, MainLocals, ret, counter, pgmname, cwd>>

\* build_validate_compile_sample: if (not validate_jalfile(pgmname)): return False
ValidateSample ==
  /\ pc = "validate"
  /\ \E ok \in tools.valid :
       /\ dst' = validate_jalfile(dst, pgmname, ok)
       /\ calls' = Append(calls, Call("validate_jalfile", pgmname, "", "",
                                 BoolStr(ok), NoTool))
       /\ IF ok THEN pc' = "compile" /\ UNCHANGED pending
                ELSE pc' = "create_sample" /\ pending' = Tail(pending)
  /\ UNCHANGED <<PinmapState, Inputs, Scanned, MainLocals, ret, counter, pgmname, cwd>>

\* what the call of compile_sample does and returns when the compiler does o
Compiled(o) == compile_sample(cwd, dst, pgmname, o)

\* build_validate_compile_sample: if (not compile_sample(runtype, pgmname)):
\* return False; return True.  create_sample: counter += 1
CompileSample ==
  /\ pc = "compile"
  /\ \E o \in tools.compiler :
       /\ cwd' = Compiled(o).cwd
       /\ dst' = Compiled(o).dst
       /\ calls' = Append(calls, Call("compile_sample", pgmname, "", "",
                                 Compiled(o).ret, o))
       /\ IF Compiled(o).ret = "raise"
          THEN pc' = "raised" /\ UNCHANGED <<pending, counter>>
          ELSE /\ pc' = "create_sample"
               /\ pending' = Tail(pending)
               /\ counter' = IF Compiled(o).ret = "True" THEN counter + 1 ELSE counter
  /\ UNCHANGED <<PinmapState, Inputs, Scanned, MainLocals, ret, pgmname>>

\* create_sample: return counter; main: sample_count = sample_count + ...
ReturnCounter ==
  /\ pc = "create_sample" /\ pending = <<>>
  /\ sample_count' = sample_count + counter
  /\ pc' = ret
  /\ UNCHANGED <<PinmapState, Inputs, Scanned, idx, osctype, oscword, current_sample_count,
                 SampleLocals, Files, calls>>

\* if (current_sample_count == sample_count): print(...); continue
EndDevice ==
  /\ pc = "end"
  /\ pc' = "for"
  /\ idx' = idx + 1
  /\ UNCHANGED <<PinmapState, Inputs, Scanned, osctype, oscword, sample_count,
                 current_sample_count, SampleLocals, Files, calls>>

Next ==
  \/ ValidateDevice
  \/ Return
  \/ ScanDevice
  \/ FindPin
  \/ NoOsc
  \/ RuleOFF
  \/ RuleINTOSC
  \/ RuleHSH
  \/ RulePRI
  \/ RuleHS
  \/ BuildSample
  \/ ValidateSample
  \/ CompileSample
  \/ ReturnCounter
  \/ EndDevice

Spec == Init /\ [][Next]_vars


-----------------------------------------------------------------------------
\* What a run did with its k-th device file, read from the history.

\* the PIC of the k-th device file
Pic(k) == SplitextRoot(devs[k])

\* the fuse_def groups and the markers of the k-th device file
Groups(k) == scan_devfile(devfile[devs[k]]).fusedef
Markers(k) == scan_devfile(devfile[devs[k]]).var

\* the keywords of the fuse_def group named key
KeywordsIn(fd, key) == IF key \in DOMAIN fd THEN Range(fd[key]) ELSE {}

Keywords(k, key) == KeywordsIn(Groups(k), key)

\* main() went through its oscillator rules for the k-th device file: the
\* file validated, a pin was found, and the loop moved on
Enumerated(k) ==
  /\ idx > k
  /\ \E j \in DOMAIN calls :
       /\ calls[j].fn = "find_blinkpin"
       /\ calls[j].file = devs[k]
       /\ calls[j].ret # ""

IsAttempt(c, pic) == c.fn = "build_sample" /\ c.file = pic

\* the calls of build_sample for a PIC, in order
Attempts(pic) == SelectSeq(calls, LAMBDA c : IsAttempt(c, pic))

\* <<osctype, oscword>> of a sequence of calls
Arguments(cs) == [j \in DOMAIN cs |-> <<cs[j].osctype, cs[j].oscword>>]

\* the files build_sample returned for a PIC
Generated(pic) ==
  {calls[j].ret : j \in {i \in DOMAIN calls : IsAttempt(calls[i], pic)}}
    \ {"None", "raise"}

Chips == DOMAIN devs

-----------------------------------------------------------------------------
\* C1: a valid chip with a usable pin and no OSC fuse group gets exactly one
\* attempt, of type INTOSC, whose oscword is F4MHZ when the IOSCFS group has
\* that keyword and is empty otherwise; so a chip with neither an OSC nor an
\* IOSCFS group still gets one INTOSC attempt.
C1_NoOscOneIntosc ==
  \A k \in Chips :
    Enumerated(k) /\ "osc" \notin DOMAIN Groups(k)
    => Arguments(Attempts(Pic(k)))
         = << <<"INTOSC", IF "F4MHZ" \in Keywords(k, "ioscfs")
                          THEN "F4MHZ" ELSE "">> >>

-----------------------------------------------------------------------------
\* C2: for a chip whose OSC group holds some of HSH, PRI and HS, the
\* attempts of type HS are exactly one per keyword present, in the order
\* HSH, PRI, HS, each with its keyword as oscword, whatever else the group
\* holds and whatever the tools answer.
HSOrder == <<"HSH", "PRI", "HS">>

\* the keywords of HSOrder that are in S, in that order
HSAmong(S) == SelectSeq(HSOrder, LAMBDA w : w \in S)

HSPresent(k) == HSAmong(Keywords(k, "osc"))

\* one attempt of type HS for each keyword of q
HSArguments(q) == [j \in DOMAIN q |-> <<"HS", q[j]>>]

HSAttempts(k) == SelectSeq(Attempts(Pic(k)), LAMBDA c : c.osctype = "HS")

C2_HSOnePerKeyword ==
  \A k \in Chips :
    Enumerated(k) /\ "osc" \in DOMAIN Groups(k)
    => Arguments(HSAttempts(k)) = HSArguments(HSPresent(k))

\* a chip with HSH, PRI and HS got its three attempts
C2_Witness ==
  \E k \in Chips :
    /\ Enumerated(k)
    /\ {"HSH", "PRI", "HS"} \subseteq Keywords(k, "osc")
    /\ Len(HSAttempts(k)) = 3

-----------------------------------------------------------------------------
\* C3: find_blinkpin returns the first of pin_A0, pin_A1, ..., pin_C7 whose
\* name and whose name followed by "_direction" both occur in the device
\* file, skipping a pin whose name occurs without its direction, and returns
\* "" exactly when no candidate qualifies.
PinOrder ==
  <<"pin_A0", "pin_A1", "pin_A2", "pin_A3", "pin_A4", "pin_A5", "pin_A6", "pin_A7",
    "pin_B0", "pin_B1", "pin_B2", "pin_B3", "pin_B4", "pin_B5", "pin_B6", "pin_B7",
    "pin_C0", "pin_C1", "pin_C2", "pin_C3", "pin_C4", "pin_C5", "pin_C6", "pin_C7">>

Qualifies(name, f) == InText(name, f) /\ InText(name \o "_direction", f)

Qualifying(f) == {j \in DOMAIN PinOrder : Qualifies(PinOrder[j], f)}

\* the name at the least of the positions Q, "" if there is none
FirstOf(Q) ==
  IF Q = {} THEN ""
  ELSE PinOrder[CHOOSE j \in Q : \A i \in Q : j <= i]

FirstQualifying(f) == FirstOf(Qualifying(f))

\* find_blinkpin has just returned
PinFound ==
  /\ calls # <<>>
  /\ calls[Len(calls)].fn = "find_blinkpin"

C3_FirstQualifyingPin ==
  PinFound
  => calls[Len(calls)].ret = FirstQualifying(devfile[calls[Len(calls)].file])

\* a pin was returned after an earlier candidate was skipped because only
\* its name occurs
C3_Witness ==
  /\ PinFound
  /\ \E j \in DOMAIN PinOrder :
       /\ calls[Len(calls)].ret = PinOrder[j]
       /\ \E i \in 1..(j - 1) :
            /\ InText(PinOrder[i], devfile[calls[Len(calls)].file])
            /\ ~Qualifies(PinOrder[i], devfile[calls[Len(calls)].file])

\* no candidate qualifies and "" was returned
C3_WitnessNone ==
  /\ PinFound
  /\ calls[Len(calls)].ret = ""
  /\ \E name \in Range(PinOrder) : InText(name, devfile[calls[Len(calls)].file])


-----------------------------------------------------------------------------
\* the last entry of the history
LastCall == calls[Len(calls)]

\* compile_sample has just returned
CompileReturned ==
  /\ calls # <<>>
  /\ LastCall.fn = "compile_sample"
  /\ LastCall.ret # "raise"

\* the report ends with an error count and a warning count
HasCounts(out) ==
  /\ Len(out) >= 4
  /\ IsInt(out[Len(out) - 3])
  /\ IsInt(out[Len(out) - 1])

\* both counts of the report are 0
ZeroCounts(out) ==
  /\ Len(out) >= 4
  /\ out[Len(out) - 3] = "0"
  /\ out[Len(out) - 1] = "0"

C4_WitnessWarnings ==
  /\ CompileReturned
  /\ LastCall.ret = "False"
  /\ LastCall.tool.exit = 0
  /\ LastCall.tool.out[Len(LastCall.tool.out) - 3] = "0"

-----------------------------------------------------------------------------
\* the compiler reports errors or warnings, or exits with a nonzero status
CompilationFails(o) ==
  \/ o.exit # 0
  \/ HasCounts(o.out) /\ ~ZeroCounts(o.out)

\* the step in which compile_sample runs the compiler and it fails
FailingCompilation ==
  /\ pc = "compile"
  /\ Len(calls') = Len(calls) + 1
  /\ CompilationFails(calls'[Len(calls')].tool)

\* C5: when the compiler reports errors or warnings or exits with a nonzero
\* status, compile_sample returns False, the source and a .log file with
\* the compiler's output exist afterwards, no .hex or .asm output is
\* removed, the sample is not counted, and the run goes on with what
\* follows the sample.
C5_FailureKeepsFiles ==
  [][FailingCompilation
     => /\ calls'[Len(calls')].ret = "False"
        /\ pgmname \in DOMAIN dst'
        /\ dst'[pgmname] = cwd[pgmname]
        /\ LogName(pgmname) \in DOMAIN dst'
        /\ dst'[LogName(pgmname)] = <<calls'[Len(calls')].tool.out>>
        /\ \A name \in {HexName(pgmname), AsmName(pgmname)} :
             name \in DOMAIN dst => name \in DOMAIN dst'
        /\ "hex" \in calls'[Len(calls')].tool.wrote
           => HexName(pgmname) \in DOMAIN dst'
        /\ "asm" \in calls'[Len(calls')].tool.wrote
           => AsmName(pgmname) \in DOMAIN dst'
        /\ counter' = counter
        /\ sample_count' = sample_count
        /\ pc' = "create_sample"
        /\ pending' = Tail(pending)]_vars

\* a compilation with warnings only failed, and left its log and outputs
C5_Witness ==
  /\ CompileReturned
  /\ LastCall.ret = "False"
  /\ LastCall.tool.exit = 0
  /\ LastCall.tool.wrote = {"hex", "asm"}
  /\ LogName(LastCall.file) \in DOMAIN dst
  /\ pc = "create_sample"

\* the compiler exited with a nonzero status, and the run reached its end
C5_WitnessExit ==
  /\ pc = "done"
  /\ \E j \in DOMAIN calls :
       /\ calls[j].fn = "compile_sample"
       /\ calls[j].tool.exit # 0
       /\ calls[j].ret = "False"

-----------------------------------------------------------------------------
\* devicespecific.json gives the PIC an OSCCON_IRCF without a value
No4MHz(pic) ==
  /\ Upper(pic) \in DOMAIN devspec
  /\ "OSCCON_IRCF" \in DOMAIN devspec[Upper(pic)]
  /\ devspec[Upper(pic)]["OSCCON_IRCF"] = "-"

\* build_sample was asked for an internal oscillator sample of such a PIC
RefusedRequest(c) ==
  /\ c.fn = "build_sample"
  /\ c.osctype \in {"INTOSC", "INTOSC_USB"}
  /\ No4MHz(c.file)

\* the samples counted so far
Counted ==
  sample_count
  + (IF pc \in {"create_sample", "validate", "compile"} THEN counter ELSE 0)

\* the compilations that returned True
Successes ==
  {j \in DOMAIN calls : calls[j].fn = "compile_sample" /\ calls[j].ret = "True"}

\* C6: when an INTOSC or INTOSC_USB sample is requested for a PIC whose
\* OSCCON_IRCF in devicespecific.json is "-", build_sample returns None and
\* creates no file, and the pipeline neither validates, compiles nor counts
\* that sample.
C6_RefusedNo4MHz ==
  /\ \A j \in DOMAIN calls :
       RefusedRequest(calls[j])
       => /\ calls[j].ret = "None"
          /\ SampleName(calls[j].file, calls[j].osctype) \o ".jal"
               \notin (DOMAIN cwd \cup DOMAIN dst)
          /\ \A i \in DOMAIN calls :
               calls[i].file # SampleName(calls[j].file, calls[j].osctype) \o ".jal"
  /\ pc # "raised" => Counted = Cardinality(Successes)

\* an INTOSC_USB sample was refused, and the run went on to its end
C6_Witness ==
  /\ pc = "done"
  /\ \E j \in DOMAIN calls :
       /\ RefusedRequest(calls[j])
       /\ calls[j].osctype = "INTOSC_USB"
       /\ j < Len(calls)

\* an INTOSC sample was refused
C6_WitnessINTOSC ==
  /\ pc = "done"
  /\ \E j \in DOMAIN calls :
       /\ RefusedRequest(calls[j])
       /\ calls[j].osctype = "INTOSC"


-----------------------------------------------------------------------------
\* the text of a file of the working directory or of dstdir
FileText(name) == IF name \in DOMAIN dst THEN dst[name] ELSE cwd[name]

\* the sample configures the internal oscillator at 4 MHz with the keyword
\* INTOSC_NOCLKOUT and initializes OSCCON_IRCF
IntoscText(text) ==
  /\ <<"pragma", "target", "clock", "4_000_000">> \in Range(text)
  /\ <<"pragma", "target", "OSC", "INTOSC_NOCLKOUT">> \in Range(text)
  /\ \E n \in DOMAIN text : text[n][1] = "OSCCON_IRCF"

\* the 16F1707 of the scenario: a valid description with a usable pin, an
\* OSC group with INTOSC_NOCLKOUT and an OSCCON_IRCF of 2 bits
Is16f1707(k) ==
  /\ Enumerated(k)
  /\ Pic(k) = "16f1707"
  /\ "INTOSC_NOCLKOUT" \in Keywords(k, "osc")
  /\ Markers(k)["ircfwidth"] = 2

\* C7: for the 16F1707 with INTOSC_NOCLKOUT in its OSC group and a 2-bit
\* OSCCON_IRCF the pipeline generates exactly one file,
\* 16f1707_blink_intosc.jal, with a 4 MHz internal oscillator configuration
\* line and an OSCCON_IRCF initialization line.
C7_OneIntoscFile ==
  \A k \in Chips :
    Is16f1707(k)
    => /\ Generated(Pic(k)) = {"16f1707_blink_intosc.jal"}
       /\ IntoscText(FileText("16f1707_blink_intosc.jal"))

\* devicespecific.json gives the PIC a value of OSCCON_IRCF
HasIrcfValue(pic) ==
  /\ Upper(pic) \in DOMAIN devspec
  /\ "OSCCON_IRCF" \in DOMAIN devspec[Upper(pic)]
  /\ devspec[Upper(pic)]["OSCCON_IRCF"] # "-"

\* the HS and HS_USB samples the other rules generate for the chip
OtherSamples(k) ==
  (IF Keywords(k, "osc") \cap {"HSH", "PRI", "HS"} # {}
   THEN {Pic(k) \o "_blink_hs.jal"} ELSE {})
  \cup (IF "HS_PLL" \in Keywords(k, "osc") /\ "usb_bdt" \in DOMAIN Markers(k)
        THEN {Pic(k) \o "_blink_hs_usb.jal"} ELSE {})

\* C7, amended: when devicespecific.json gives the 16F1707 a value of
\* OSCCON_IRCF, the pipeline generates 16f1707_blink_intosc.jal with the
\* 4 MHz internal oscillator line and the OSCCON_IRCF line; beside it, it
\* generates the HS sample when OSC holds HSH, PRI or HS and the HS_USB
\* sample when OSC holds HS_PLL and the chip has USB, and nothing else.
C7_IntoscFileAmongSamples ==
  \A k \in Chips :
    Is16f1707(k) /\ HasIrcfValue(Pic(k))
    => /\ Generated(Pic(k)) = {"16f1707_blink_intosc.jal"} \cup OtherSamples(k)
       /\ IntoscText(FileText("16f1707_blink_intosc.jal"))

\* the scenario as stated: the intosc sample is the only file
C7_Witness ==
  \E k \in Chips :
    /\ Is16f1707(k) /\ HasIrcfValue(Pic(k))
    /\ Generated(Pic(k)) = {"16f1707_blink_intosc.jal"}
    /\ <<"OSCCON_IRCF", "=", "0b1101">> \in Range(FileText("16f1707_blink_intosc.jal"))

\* the intosc sample and an HS sample
C7_WitnessTwoFiles ==
  \E k \in Chips :
    /\ Is16f1707(k) /\ HasIrcfValue(Pic(k))
    /\ Generated(Pic(k)) = {"16f1707_blink_intosc.jal", "16f1707_blink_hs.jal"}

-----------------------------------------------------------------------------
\* the <<osctype, oscword>> attempted for the k-th device file
Tried(k) == Range(Arguments(Attempts(Pic(k))))

\* C8: whenever the OSC group holds HS_PLL and USB_BDT_ADDRESS is detected,
\* the HS_USB variant with oscword HS_PLL is attempted, whatever the other
\* rules do.
C8_UsbVariantAlways ==
  \A k \in Chips :
    /\ Enumerated(k)
    /\ "HS_PLL" \in Keywords(k, "osc")
    /\ "usb_bdt" \in DOMAIN Markers(k)
    => <<"HS_USB", "HS_PLL">> \in Tried(k)

\* what the code does: the HS_USB variant is attempted once for each of OFF
\* and INTOSC_NOCLKOUT in the OSC group, and not at all without them
C8_UsbVariantWithInternal ==
  \A k \in Chips :
    Enumerated(k)
    => Len(SelectSeq(Attempts(Pic(k)), LAMBDA c : c.osctype = "HS_USB"))
         = IF "HS_PLL" \in Keywords(k, "osc") /\ "usb_bdt" \in DOMAIN Markers(k)
           THEN Cardinality(Keywords(k, "osc") \cap {"OFF", "INTOSC_NOCLKOUT"})
           ELSE 0

-----------------------------------------------------------------------------
\* C9: whenever the OSC group holds OFF, an INTOSC variant with oscword OFF
\* is attempted, whatever other keywords the group holds.
C9_OffAlways ==
  \A k \in Chips :
    Enumerated(k) /\ "OFF" \in Keywords(k, "osc")
    => <<"INTOSC", "OFF">> \in Tried(k)

\* what the code does: OFF is the oscword only when the group holds none of
\* INTOSC_NOCLKOUT, INTOSC_NOCLKOUT_USB_HS and INTOSC_NOCLKOUT_PLL
C9_OffLast ==
  \A k \in Chips :
    Enumerated(k) /\ "osc" \in DOMAIN Groups(k)
    => (<<"INTOSC", "OFF">> \in Tried(k)
        <=> /\ "OFF" \in Keywords(k, "osc")
            /\ Keywords(k, "osc") \cap {"INTOSC_NOCLKOUT", "INTOSC_NOCLKOUT_USB_HS",
                                        "INTOSC_NOCLKOUT_PLL"} = {})

-----------------------------------------------------------------------------
\* the attempts of type INTOSC
IntoscAttempts(k) == SelectSeq(Attempts(Pic(k)), LAMBDA c : c.osctype = "INTOSC")

\* C10: whenever the OSC group holds INTOSC_NOCLKOUT and the FOSC2 group
\* holds ON, one more INTOSC variant is attempted beside those of the rules
\* for OFF and INTOSC_NOCLKOUT: with oscword EC_CLKOUT_PLL when the OSC group
\* holds it, otherwise the one for INTOSC_NOCLKOUT_PLL when the group holds
\* that, and never both.
C10_ImplicitInternal ==
  \A k \in Chips :
    /\ Enumerated(k)
    /\ "INTOSC_NOCLKOUT" \in Keywords(k, "osc")
    /\ "ON" \in Keywords(k, "fosc2")
    => /\ Len(IntoscAttempts(k))
            = Cardinality(Keywords(k, "osc") \cap {"OFF", "INTOSC_NOCLKOUT"})
              + (IF Keywords(k, "osc") \cap {"EC_CLKOUT_PLL", "INTOSC_NOCLKOUT_PLL"} # {}
                 THEN 1 ELSE 0)
       /\ ("EC_CLKOUT_PLL" \in Keywords(k, "osc")
           => <<"INTOSC", "EC_CLKOUT_PLL">> \in Tried(k))

\* what the code does: no attempt has the oscword EC_CLKOUT_PLL, and the
\* INTOSC attempts are those of the rules for OFF and INTOSC_NOCLKOUT
C10_NoImplicitInternal ==
  \A k \in Chips :
    Enumerated(k) /\ "osc" \in DOMAIN Groups(k)
    => /\ <<"INTOSC", "EC_CLKOUT_PLL">> \notin Tried(k)
       /\ Len(IntoscAttempts(k))
            <= Cardinality(Keywords(k, "osc") \cap {"OFF", "INTOSC_NOCLKOUT"})


-----------------------------------------------------------------------------
\* C11: no condition of a single chip halts the batch: whatever happens for
\* a chip (chip missing from devicespecific.json, a line without words or a
\* missing "}" in a fuse block, a compiler report that does not end in two
\* integers, failed validation, failed compilation), main() is never ended by
\* an exception before it visited every device file.
C11_NoChipHaltsBatch == pc # "raised"

\* what the code does: failed validations and failed compilations do not
\* end the run; an exception does, and it comes from scan_devfile, from
\* build_sample or from compile_sample
C11_HaltsOnException ==
  pc = "raised"
  => \/ calls[Len(calls)].ret = "raise"
     \/ scan_devfile(devfile[devs[idx]]).err


-----------------------------------------------------------------------------
\* the validation of the k-th device file failed, or find_blinkpin found no
\* pin in it
FailedValidation(k) ==
  \E j \in DOMAIN calls :
    /\ calls[j].fn = "validate_jalfile"
    /\ calls[j].file = devs[k]
    /\ calls[j].ret = "False"

NoUsablePin(k) ==
  \E j \in DOMAIN calls :
    /\ calls[j].fn = "find_blinkpin"
    /\ calls[j].file = devs[k]
    /\ calls[j].ret = ""

\* the calls that handle a sample of a PIC
SampleCalls(pic) ==
  {j \in DOMAIN calls :
     \/ IsAttempt(calls[j], pic)
     \/ StartsWith(calls[j].file, pic \o "_blink")}

\* C12: a chip whose description fails validation, or in which
\* find_blinkpin finds no usable pin, is skipped: no sample is synthesized,
\* validated or compiled for it, none is counted, and main() has moved on to
\* the next device file.
C12_SkippedChip ==
  /\ \A k \in Chips :
       FailedValidation(k) \/ NoUsablePin(k)
       => /\ SampleCalls(Pic(k)) = {}
          /\ idx > k
  /\ pc # "raised" => Counted = Cardinality(Successes)

\* the first chip was skipped for want of a pin, and a sample of the second
\* was compiled
C12_Witness ==
  /\ Len(devs) = 2
  /\ NoUsablePin(1)
  /\ \E j \in SampleCalls(Pic(2)) : calls[j].fn = "compile_sample"

\* the first chip failed validation, and a sample of the second was built
C12_WitnessValidation ==
  /\ Len(devs) = 2
  /\ FailedValidation(1)
  /\ SampleCalls(Pic(2)) # {}


-----------------------------------------------------------------------------
\* build_sample(pic, pin, osctype, oscword) called on its own, after
\* scan_devfile filled var and fusedef from a device file.

\* oscillator types, those build_sample knows and others
KnownTypes == {"HS", "INTOSC", "HS_USB", "INTOSC_USB"}
OtherTypes == {"", "LP", "hs", "INTOSC_NOCLKOUT", "HS_PLL"}

\* the fuse_def groups for which build_sample writes a directive after the
\* oscillator selection
AuxFuses ==
  {"PLLEN", "PLLDIV", "CPUDIV", "USBDIV", "CLKOUTEN", "WDT", "XINST", "DEBUG",
   "BROWNOUT", "FCMEN", "CSWEN", "IESO", "VREGEN", "LVP", "MCLR", "MVECEN",
   "JTAGEN"}

\* keyword lists of a group: every keyword build_sample may ask for, some of
\* them, none of them
AuxKeywords ==
  {<<"DISABLED", "ENABLED", "CONTROL", "EXTERNAL", "P1", "P2", "P5">>,
   <<"ENABLED", "CONTROL", "P2">>,
   <<"ON", "OFF">>}

\* the blocks of the groups S, each with the keywords kwds
RECURSIVE AuxBlocks(_, _)
AuxBlocks(S, kwds) ==
  IF S = {} THEN <<>>
  ELSE LET g == CHOOSE x \in S : TRUE IN
       FuseBlock(g, kwds) \o AuxBlocks(S \ {g}, kwds)

AuxFiles ==
  {AuxBlocks(S, kwds) : S \in SubsetsUpTo(AuxFuses, MaxAuxGroups),
                        kwds \in AuxKeywords}

\* entries of devicespecific.json
SpecEntries ==
  {NoIrcf, Ircf("-"), Ircf("1101"), [x \in {"PLLEN"} |-> "1"]}

\* a call: the device file scanned, devicespecific.json, and the arguments
BuildCalls ==
  {[file |-> <<TitleLine>> \o blocks, ds |-> [x \in {Upper(Pic1)} |-> d],
    pic |-> Pic1, otype |-> t, oword |-> "HS"] :
     blocks \in AuxFiles, d \in {NoIrcf, [x \in {"PLLEN"} |-> "1"]}, t \in KnownTypes}
  \cup {[file |-> <<TitleLine>> \o blocks \o ircf, ds |-> ds, pic |-> pic,
         otype |-> t, oword |-> w] :
          blocks \in Blocks("FOSC2", {<<"ON", "OFF">>, <<"OFF">>}),
          ircf \in {<<>>, <<IrcfLine>>},
          ds \in {EmptyDict} \cup {[x \in {Upper(Pic1)} |-> d] : d \in SpecEntries},
          pic \in {Pic1, Pic2},
          t \in KnownTypes \cup OtherTypes,
          w \in {"", "HS", "PRI", "F4MHZ"}}

BuildInit ==
  /\ PinmapIdle
  /\ \E c \in BuildCalls :
       /\ devs = <<c.pic \o ".jal">>
       /\ devfile = OneFile(c.pic \o ".jal", c.file)
       /\ devspec = c.ds
       /\ var = scan_devfile(c.file).var
       /\ fusedef = scan_devfile(c.file).fusedef
       /\ osctype = c.otype
       /\ oscword = c.oword
  /\ tools = GoodTools
  /\ pc = "build_sample"
  /\ idx = 1
  /\ blink_pin = "pin_A0"
  /\ sample_count = 0
  /\ current_sample_count = 0
  /\ ret = ""
  /\ pending = <<>>
  /\ counter = 0
  /\ pgmname = ""
  /\ cwd = EmptyDict
  /\ dst = EmptyDict
  /\ calls = <<>>

\* what build_sample returns for the arguments of the call
BuiltAlone ==
  build_sample(cwd, SplitextRoot(devs[idx]), blink_pin, osctype, oscword,
               var, fusedef, devspec)

\* pgmname = build_sample(pic, blink_pin, osctype, oscword)
BuildAlone ==
  /\ pc = "build_sample"
  /\ cwd' = BuiltAlone.cwd
  /\ calls' = Append(calls, Call("build_sample", SplitextRoot(devs[idx]),
                                 osctype, oscword, BuiltAlone.ret, NoTool))
  /\ pc' = IF BuiltAlone.ret = "raise" THEN "raised" ELSE "built"
  /\ UNCHANGED <<PinmapState, Inputs, Scanned, idx, osctype, oscword, sample_count,
                 current_sample_count, SampleLocals, dst>>

SpecBuild == BuildInit /\ [][BuildAlone]_vars

-----------------------------------------------------------------------------
\* the suffix of the file name for each oscillator type build_sample knows
Suffix ==
  [t \in KnownTypes |->
     IF t = "HS" THEN "_hs"
     ELSE IF t = "INTOSC" THEN "_intosc"
     ELSE IF t = "HS_USB" THEN "_hs_usb"
     ELSE "_intosc_usb"]

\* build_sample has returned
BuildReturned ==
  /\ calls # <<>>
  /\ LastCall.fn = "build_sample"
  /\ LastCall.ret # "raise"

\* C13: the file build_sample creates is named <chipname>_blink, the suffix
\* of the oscillator type (_hs, _intosc, _hs_usb, _intosc_usb) and ".jal",
\* whatever the other arguments and the description are; for any other
\* oscillator type build_sample returns None and creates no file.
C13_FileNameFromChipAndType ==
  (pc = "built" /\ BuildReturned)
  => IF LastCall.osctype \in KnownTypes
     THEN \/ LastCall.ret = "None" /\ cwd = EmptyDict
          \/ /\ LastCall.ret
                  = LastCall.file \o "_blink" \o Suffix[LastCall.osctype] \o ".jal"
             /\ DOMAIN cwd = {LastCall.ret}
     ELSE LastCall.ret = "None" /\ cwd = EmptyDict

\* a file was created for the type INTOSC_USB
C13_Witness ==
  /\ pc = "built" /\ BuildReturned
  /\ LastCall.osctype = "INTOSC_USB"
  /\ DOMAIN cwd = {"16f1707_blink_intosc_usb.jal"}

\* None was returned for a type build_sample does not know
C13_WitnessOther ==
  /\ pc = "built" /\ BuildReturned
  /\ LastCall.osctype = "LP"
  /\ LastCall.ret = "None"


-----------------------------------------------------------------------------
\* the keys of the selected fuse_def blocks of a device file that no later
\* line starting with "}" closes
UnterminatedKeys(f) ==
  {FuseKey(f[n][3]) :
     n \in {m \in 1..Len(f) : /\ Len(f[m]) > 2
                              /\ f[m][1] = "pragma" /\ f[m][2] = "fuse_def"
                              /\ FuseKey(f[m][3]) # ""
                              /\ \A q \in (m + 1)..Len(f) :
                                   Len(f[q]) = 0 \/ f[q][1] # "}"}}

\* C14: a fuse_def block that is not closed by a "}" line before the end of
\* the device file is a scan error: when scan_devfile has returned to main(),
\* fusedef holds no keyword list for such a block.
C14_UnterminatedIsScanError ==
  pc = "pin" => \A key \in UnterminatedKeys(devfile[devs[idx]]) :
                  key \notin DOMAIN fusedef


-----------------------------------------------------------------------------
\* the step in which compile_sample returns False
CompileReturnsFalse ==
  /\ pc = "compile"
  /\ Len(calls') = Len(calls) + 1
  /\ calls'[Len(calls')].ret = "False"

\* C16: the sample is moved to the destination directory only when it
\* compiled: whenever compile_sample returns False the source is still in
\* the working directory and not in the destination directory.
C16_FailureLeavesSource ==
  [][CompileReturnsFalse
     => /\ pgmname \in DOMAIN cwd'
        /\ pgmname \notin DOMAIN dst']_vars


-----------------------------------------------------------------------------
\* call j validates a sample, not a device file
ValidatesSample(j) ==
  /\ calls[j].fn = "validate_jalfile"
  /\ calls[j].file \notin Range(devs)

\* call j is build_sample returning a file name
Synthesized(j) ==
  /\ calls[j].fn = "build_sample"
  /\ calls[j].ret \notin {"None", "raise"}

\* the calls are in the order build_sample, validate_jalfile, compile_sample
StageOrder ==
  \A j \in DOMAIN calls :
    /\ ValidatesSample(j)
       => /\ j > 1
          /\ Synthesized(j - 1)
          /\ calls[j - 1].ret = calls[j].file
    /\ calls[j].fn = "compile_sample"
       => /\ j > 1
          /\ ValidatesSample(j - 1)
          /\ calls[j - 1].file = calls[j].file
          /\ calls[j - 1].ret = "True"
    /\ j < Len(calls) /\ Synthesized(j)
       => ValidatesSample(j + 1)
    /\ j < Len(calls) /\ ValidatesSample(j) /\ calls[j].ret = "True"
       => calls[j + 1].fn = "compile_sample"

\* the step is a call of compile_sample that returns True
SuccessfulCompile ==
  /\ Len(calls') = Len(calls) + 1
  /\ calls'[Len(calls')].fn = "compile_sample"
  /\ calls'[Len(calls')].ret = "True"

\* the count grows by one in the steps that compile a sample successfully
\* and stays in all others
CountStep ==
  pc' # "raised"
  => Counted' = Counted + (IF SuccessfulCompile THEN 1 ELSE 0)

\* C19: for every sample the stages run in the order synthesize, validate,
\* compile: a sample is validated only right after build_sample returned its
\* name, compiled only right after its validation succeeded, the count grows
\* by exactly one with each successful compilation and in no other step, and
\* main() returns the number of successful compilations.
C19_StageOrderAndCount ==
  /\ [](StageOrder)
  /\ [][CountStep]_vars
  /\ [](pc = "done" => sample_count = Cardinality(Successes))

\* main() returned 1 after one sample was refused, one failed validation
\* or compilation, and one compiled
C19_Witness ==
  /\ pc = "done"
  /\ sample_count = 1
  /\ \E i, j \in DOMAIN calls :
       /\ i < j
       /\ \/ ValidatesSample(i) /\ calls[i].ret = "False"
          \/ calls[i].fn = "compile_sample" /\ calls[i].ret = "False"
       /\ calls[j].fn = "compile_sample" /\ calls[j].ret = "True"


-----------------------------------------------------------------------------
\* the lines "pragma target <fuse> <keyword>" of a text
DirectiveLines(text, fuse) ==
  {n \in 1..Len(text) : /\ Len(text[n]) = 4
                        /\ text[n][1] = "pragma" /\ text[n][2] = "target"
                        /\ text[n][3] = fuse}

\* the keywords of these lines
DirectiveWords(text, fuse) == {text[n][4] : n \in DirectiveLines(text, fuse)}

\* the device file holds a block "pragma fuse_def <fuse>"
GroupInFile(f, fuse) ==
  \E n \in 1..Len(f) : /\ Len(f[n]) > 2
                       /\ f[n][1] = "pragma" /\ f[n][2] = "fuse_def"
                       /\ f[n][3] = fuse

\* the keywords the device file offers for the fuse
Offered(fuse) ==
  IF FuseKey(fuse) \in DOMAIN fusedef THEN Range(fusedef[FuseKey(fuse)]) ELSE {}

\* the keyword of the directive for a fuse: by the fuse and the oscillator
\* type, but for PLLEN with INTOSC also by the PLLEN entry of
\* devicespecific.json, and for WDT by the keywords offered
KeywordOf(fuse, otype, picdata, offered) ==
  IF fuse = "PLLEN" THEN
       IF otype = "INTOSC"
       THEN IF "PLLEN" \in DOMAIN picdata THEN "ENABLED" ELSE "DISABLED"
       ELSE IF otype = "INTOSC_USB" THEN "ENABLED" ELSE "DISABLED"
  ELSE IF fuse = "PLLDIV" THEN
       IF otype = "HS_USB" THEN "P5"
       ELSE IF otype = "INTOSC_USB" THEN "P2" ELSE "P1"
  ELSE IF fuse = "CPUDIV" THEN "P1"
  ELSE IF fuse = "USBDIV" THEN "P2"
  ELSE IF fuse = "WDT" THEN IF "DISABLED" \in offered THEN "DISABLED" ELSE "CONTROL"
  ELSE IF fuse \in {"CSWEN", "VREGEN", "LVP"} THEN "ENABLED"
  ELSE IF fuse = "MCLR" THEN "EXTERNAL"
  ELSE "DISABLED"

\* the directive of the fuse is written for this oscillator type at all
WrittenFor(fuse, otype) == fuse = "USBDIV" => otype = "HS_USB"

\* build_sample has written a sample
SampleBuilt ==
  /\ pc = "built"
  /\ BuildReturned
  /\ LastCall.ret # "None"

\* C20 (amended): the sample holds at most one directive for each auxiliary
\* fuse group, and only if the group was found in the device file.  Its
\* keyword is fixed by the group and the oscillator type, except that PLLEN
\* with INTOSC is ENABLED when devicespecific.json has PLLEN for the chip and
\* DISABLED otherwise, and that WDT is DISABLED when the group offers it and
\* CONTROL otherwise.  Every directive but WDT is written exactly when the
\* group offers the keyword (USBDIV: for HS_USB only); the WDT directive is
\* written whenever the group was found.
C20_AuxDirectives ==
  SampleBuilt
  => \A fuse \in AuxFuses :
       /\ Cardinality(DirectiveLines(cwd[LastCall.ret], fuse)) <= 1
       /\ DirectiveLines(cwd[LastCall.ret], fuse) # {}
          <=> /\ GroupInFile(devfile[devs[idx]], fuse)
              /\ WrittenFor(fuse, osctype)
              /\ \/ fuse = "WDT"
                 \/ KeywordOf(fuse, osctype, devspec[Upper(LastCall.file)],
                              Offered(fuse)) \in Offered(fuse)
       /\ DirectiveWords(cwd[LastCall.ret], fuse)
            \subseteq {KeywordOf(fuse, osctype, devspec[Upper(LastCall.file)],
                                 Offered(fuse))}

\* an INTOSC sample with PLLEN ENABLED, for a chip with PLLEN in
\* devicespecific.json
C20_Witness ==
  /\ SampleBuilt
  /\ osctype = "INTOSC"
  /\ DirectiveWords(cwd[LastCall.ret], "PLLEN") = {"ENABLED"}

\* a sample with WDT CONTROL for a device file whose WDT group does not
\* offer CONTROL
C20_WitnessWdt ==
  /\ SampleBuilt
  /\ DirectiveWords(cwd[LastCall.ret], "WDT") = {"CONTROL"}
  /\ "CONTROL" \notin Offered("WDT")

\* the keywords build_sample writes for the fuse, with the same oscillator
\* type, for a chip whose entry in devicespecific.json is picdata and whose
\* device file offers the keywords kwds for the fuse
WordsForChip(fuse, picdata, kwds) ==
  DirectiveWords(FuseLines(osctype, DictSet(fusedef, FuseKey(fuse), kwds), picdata),
                 fuse)

\* C20 (as stated): a directive for an auxiliary fuse group is written only
\* if the group was found in the device file, and its keyword is the one
\* fixed by the fuse group and the oscillator type: the sample of any other
\* chip with this group has, for the same oscillator type, the same keyword.
C20_KeywordFixedByGroupAndType ==
  SampleBuilt
  => \A fuse \in AuxFuses :
       /\ DirectiveLines(cwd[LastCall.ret], fuse) # {}
          => GroupInFile(devfile[devs[idx]], fuse)
       /\ \A picdata \in {NoIrcf, [x \in {"PLLEN"} |-> "1"]} :
            \A kwds \in AuxKeywords :
              \/ DirectiveWords(cwd[LastCall.ret], fuse) = {}
              \/ WordsForChip(fuse, picdata, kwds) = {}
              \/ WordsForChip(fuse, picdata, kwds)
                   = DirectiveWords(cwd[LastCall.ret], fuse)


-----------------------------------------------------------------------------
\* pinmap_create.py: Python primitives

\* the characters of the names, in the order of their code points
CodePoints == " +-/0123456789ABCDEFGHIJKLMNOPQRSTUVWXYZ_abcdefghijklmnopqrstuvwxyz"

CodePoint(c) == CHOOSE k \in 1..Len(CodePoints) : SubSeq(CodePoints, k, k) = c

\* a < b for strings
RECURSIVE StrLess(_, _)
StrLess(a, b) ==
  IF Len(b) = 0 THEN FALSE
  ELSE IF Len(a) = 0 THEN TRUE
  ELSE IF SubSeq(a, 1, 1) = SubSeq(b, 1, 1)
  THEN StrLess(SubSeq(a, 2, Len(a)), SubSeq(b, 2, Len(b)))
  ELSE CodePoint(SubSeq(a, 1, 1)) < CodePoint(SubSeq(b, 1, 1))

\* sorted(list(S)) for a set of strings
RECURSIVE Sorted(_)
Sorted(S) ==
  IF S = {} THEN <<>>
  ELSE LET m == CHOOSE x \in S : \A y \in S \ {x} : StrLess(x, y)
       IN <<m>> \o Sorted(S \ {m})

\* s.lstrip(c), s.rstrip(c), s.strip(c) for a character c
RECURSIVE LStrip(_, _)
LStrip(s, c) ==
  IF Len(s) > 0 /\ SubSeq(s, 1, 1) = c THEN LStrip(SubSeq(s, 2, Len(s)), c) ELSE s

RECURSIVE RStrip(_, _)
RStrip(s, c) ==
  IF Len(s) > 0 /\ SubSeq(s, Len(s), Len(s)) = c
  THEN RStrip(SubSeq(s, 1, Len(s) - 1), c) ELSE s

Strip(s, c) == RStrip(LStrip(s, c), c)

\* the characters of s up to its first blank
RECURSIVE UpToBlank(_)
UpToBlank(s) ==
  IF Len(s) = 0 \/ SubSeq(s, 1, 1) = " " THEN ""
  ELSE SubSeq(s, 1, 1) \o UpToBlank(SubSeq(s, 2, Len(s)))

\* s.split()[0]; "" where Python raises IndexError (s has no word)
FirstWord(s) == UpToBlank(LStrip(s, " "))

\* s[-1]
LastChar(s) == SubSeq(s, Len(s), Len(s))

\* s[3:]
From3(s) == SubSeq(s, 4, Len(s))

\* q.remove(x)
RECURSIVE RemoveFirst(_, _)
RemoveFirst(q, x) ==
  IF q = <<>> THEN q
  ELSE IF Head(q) = x THEN Tail(q)
  ELSE <<Head(q)>> \o RemoveFirst(Tail(q), x)

\* q.index(x), 0 where Python raises ValueError
RECURSIVE IndexFrom(_, _, _)
IndexFrom(q, x, k) ==
  IF k > Len(q) THEN 0
  ELSE IF q[k] = x THEN k ELSE IndexFrom(q, x, k + 1)

Index(q, x) == IndexFrom(q, x, 1)

-----------------------------------------------------------------------------
\* create_pinmap_pic.  A .pic file is the sequence of its edc:Pin nodes; a
\* node has the word lists of its comment children and the edc:name of its
\* edc:VirtualPin elements.  A pinlist is an ordered dictionary: the sequence
\* of its items [pin, aliases] in the order of insertion.

portpin(alias) ==
  /\ Len(alias) = 3
  /\ SubSeq(alias, 1, 1) = "R"
  /\ IsSubstr(SubSeq(alias, 2, 2), "ABCDEFGHIJKL")
  /\ IsSubstr(SubSeq(alias, 3, 3), "01234567")

gpiopin(alias) ==
  /\ Len(alias) = 3
  /\ SubSeq(alias, 1, 2) = "GP"
  /\ IsSubstr(SubSeq(alias, 3, 3), "012345")

pinexcl ==
  <<"AVDD", "AVSS", "D+", "D-", "VDD", "VPP", "VSS",
    "ICD", "ICSP", "PGC", "PGD", "INT", "IOC">>

\* alias.startswith(pinexcl)
Excluded(alias) == \E k \in DOMAIN pinexcl : StartsWith(alias, pinexcl[k])

\* vpin.getAttribute("edc:name").upper().strip("_").split()[0]
AliasName(name) == FirstWord(Strip(Upper(name), "_"))

\* the if ... elif chain on an alias: aliaslist afterwards
AddAlias(picname, pinnumber, aliaslist, alias) ==
  IF Excluded(alias) THEN aliaslist
  ELSE IF IsSubstr("MCLR", alias) THEN aliaslist
  ELSE IF alias = "NC" THEN aliaslist
  ELSE IF StartsWith(alias, "RB") /\ StartsWith(picname, "12")
  THEN aliaslist \o <<"RA" \o LastChar(alias), "GP" \o LastChar(alias)>>
  ELSE IF alias = "DAC1VREF+N" THEN Append(aliaslist, "DAC1VREF+")
  ELSE IF picname \in {"16F1707", "16LF1707"} /\ alias = "AN9" /\ pinnumber = 8
  THEN Append(aliaslist, "AN8")
  ELSE IF /\ picname \in {"18F2439", "18F2539", "18F4439", "18F4539"}
          /\ StartsWith(alias, "PWM")
  THEN aliaslist \o <<alias, IF LastChar(alias) = "1" THEN "RC2" ELSE "RC1">>
  ELSE IF alias \notin Range(aliaslist) THEN Append(aliaslist, alias)
  ELSE aliaslist

\* "for vpin in pin.getElementsByTagName("edc:VirtualPin")", from the k-th;
\* err: split()[0] raised IndexError
RECURSIVE VirtualPins(_, _, _, _, _)
VirtualPins(picname, pinnumber, names, k, aliaslist) ==
  IF k > Len(names) THEN [aliaslist |-> aliaslist, err |-> FALSE]
  ELSE IF AliasName(names[k]) = "" THEN [aliaslist |-> aliaslist, err |-> TRUE]
  ELSE VirtualPins(picname, pinnumber, names, k + 1,
                   AddAlias(picname, pinnumber, aliaslist, AliasName(names[k])))

\* "for pinc in pin.childNodes", from the k-th comment: the pin number,
\* -1 where wlist[0] or wlist[1] raises IndexError
RECURSIVE CorrectedNumber(_, _, _)
CorrectedNumber(comments, k, pinnumber) ==
  IF k > Len(comments) THEN pinnumber
  ELSE IF Len(comments[k]) = 0 THEN -1
  ELSE IF IsInt(comments[k][1])
  THEN CorrectedNumber(comments, k + 1, IntOf(comments[k][1]))
  ELSE IF Len(comments[k]) = 1 THEN -1
  ELSE IF IsInt(comments[k][2])
  THEN CorrectedNumber(comments, k + 1, IntOf(comments[k][2]))
  ELSE CorrectedNumber(comments, k + 1, pinnumber)

\* the corrections after the aliases of a pin were collected
Corrections(picname, pinnumber, aliaslist) ==
  IF IsSubstr(picname, "16LF1559") /\ pinnumber = 18
  THEN IF "AN1" \notin Range(aliaslist) THEN Append(aliaslist, "AN1")
       ELSE aliaslist
  ELSE IF /\ StartsWith(picname, "16F1919") \/ StartsWith(picname, "16LF1919")
          /\ "RF2" \in Range(aliaslist)
          /\ "ANF1" \in Range(aliaslist)
  THEN Append(RemoveFirst(aliaslist, "ANF1"), "ANF2")
  ELSE aliaslist

\* "for alias in aliaslist": the index at which the loop breaks, 0 if it
\* does not
RECURSIVE PortbitIndex(_, _)
PortbitIndex(aliaslist, k) ==
  IF k > Len(aliaslist) THEN 0
  ELSE IF portpin(aliaslist[k]) \/ gpiopin(aliaslist[k]) THEN k
  ELSE PortbitIndex(aliaslist, k + 1)

\* portbit, "None" if no alias is Rxy or GPx
Portbit(aliaslist, k) ==
  IF k = 0 THEN "None"
  ELSE IF portpin(aliaslist[k]) THEN aliaslist[k]
  ELSE "RA" \o LastChar(aliaslist[k])

\* aliaslist with Rxy moved to the front
PortbitFirst(aliaslist, k) ==
  IF k # 0 /\ portpin(aliaslist[k]) /\ aliaslist[k] # aliaslist[1]
  THEN <<aliaslist[k]>> \o RemoveFirst(aliaslist, aliaslist[k])
  ELSE aliaslist

\* portbit in pinlist
HasPin(pinlist, pin) == \E k \in DOMAIN pinlist : pinlist[k].pin = pin

\* "if portbit != None: ...": pinlist after the pin
AddPin(pinlist, aliaslist, k) ==
  IF Portbit(aliaslist, k) = "None" \/ HasPin(pinlist, Portbit(aliaslist, k))
  THEN pinlist
  ELSE Append(pinlist, [pin |-> Portbit(aliaslist, k),
                        aliases |-> PortbitFirst(aliaslist, k)])

\* "for pin in dom.getElementsByTagName("edc:Pin")", from the k-th node
RECURSIVE Pins(_, _, _, _, _)
PinAliases(picname, nodes, k, n, pinlist, r) ==
  IF r.err THEN [pinlist |-> pinlist, err |-> TRUE]
  ELSE Pins(picname, nodes, k + 1, n,
            AddPin(pinlist, Corrections(picname, n, r.aliaslist),
                   PortbitIndex(Corrections(picname, n, r.aliaslist), 1)))

PinNode(picname, nodes, k, n, pinlist) ==
  IF n = -1 THEN [pinlist |-> pinlist, err |-> TRUE]
  ELSE PinAliases(picname, nodes, k, n, pinlist,
                  VirtualPins(picname, n, nodes[k].vpins, 1, <<>>))

Pins(picname, nodes, k, pinnumber, pinlist) ==
  IF k > Len(nodes) THEN [pinlist |-> pinlist, err |-> FALSE]
  ELSE PinNode(picname, nodes, k,
               CorrectedNumber(nodes[k].comments, 1, pinnumber + 1), pinlist)

\* what create_pinmap_pic returns for the pins it found: (picname, pinlist),
\* (picname, pinmap[picname]) or (None, None); err: it raised IndexError
Mapping(picname, r, old) ==
  IF r.err THEN [err |-> TRUE, key |-> "None", value |-> <<>>]
  ELSE IF Len(r.pinlist) > 0
  THEN [err |-> FALSE, key |-> picname, value |-> r.pinlist]
  ELSE IF picname \in DOMAIN old
  THEN [err |-> FALSE, key |-> picname, value |-> old[picname]]
  ELSE [err |-> FALSE, key |-> "None", value |-> <<>>]

create_pinmap_pic(picname, nodes, old) ==
  Mapping(picname, Pins(picname, nodes, 1, 0, <<>>), old)

-----------------------------------------------------------------------------
\* list_pic, build_pinmap_new, build_pinaliases

\* alias[pin] for an ordered dictionary
AliasesOf(pinlist, pin) ==
  pinlist[CHOOSE k \in DOMAIN pinlist : pinlist[k].pin = pin].aliases

\* list_pic(fp, pic, alias): what it writes, the pins sorted
list_pic(pic, pinlist) ==
  [pic |-> pic,
   pins |-> [k \in 1..Cardinality({pinlist[j].pin : j \in DOMAIN pinlist}) |->
               [pin |-> Sorted({pinlist[j].pin : j \in DOMAIN pinlist})[k],
                aliases |-> AliasesOf(pinlist,
                              Sorted({pinlist[j].pin : j \in DOMAIN pinlist})[k])]]]

\* the entries of pinmap.py or pinaliases.json for the PICs of piclist
Entries(map, piclist) ==
  [k \in DOMAIN piclist |-> list_pic(piclist[k], map[piclist[k]])]

\* the file after "with open(f, "w") as fp: ..." for the dictionary map
\* without a key None
WriteFile(map) ==
  IF DOMAIN map = {}
  THEN [state |-> "partial", pics |-> <<>>]        \* piclist[-1]: IndexError
  ELSE [state |-> "complete", pics |-> Entries(map, Sorted(DOMAIN map))]

\* alias.replace("+", "_POS_").replace("-", "_NEG_")
RECURSIVE ReplaceSigns(_)
ReplaceSigns(s) ==
  IF Len(s) = 0 THEN s
  ELSE (IF SubSeq(s, 1, 1) = "+" THEN "_POS_"
        ELSE IF SubSeq(s, 1, 1) = "-" THEN "_NEG_"
        ELSE SubSeq(s, 1, 1))
       \o ReplaceSigns(SubSeq(s, 2, Len(s)))

\* the name build_pinaliases gives an alias
NewName(alias) ==
  ReplaceSigns(IF LastChar(alias) = "-"
               THEN SubSeq(alias, 1, Len(alias) - 1) \o "_NEG"
               ELSE IF LastChar(alias) = "+"
               THEN SubSeq(alias, 1, Len(alias) - 1) \o "_POS"
               ELSE alias)

\* newpins of a pin
RECURSIVE NewPins(_, _)
NewPins(pin, aliases) ==
  IF aliases = <<>> THEN <<>>
  ELSE (IF Head(aliases) # pin THEN <<NewName(Head(aliases))>> ELSE <<>>)
       \o NewPins(pin, Tail(aliases))

\* picpin after the first loop: picpin[pin] = newpins for every pin
Renamed(picpin) ==
  [k \in DOMAIN picpin |->
     [pin |-> picpin[k].pin, aliases |-> NewPins(picpin[k].pin, picpin[k].aliases)]]

\* the (alias, pin) pairs in the order of pinaliases.setdefault(alias,[]).append(pin)
RECURSIVE Appended(_, _)
Appended(picpin, k) ==
  IF k > Len(picpin) THEN <<>>
  ELSE [j \in DOMAIN picpin[k].aliases |->
          [alias |-> picpin[k].aliases[j], pin |-> picpin[k].pin]]
       \o Appended(picpin, k + 1)

\* the keys of pinaliases in the order of insertion
RECURSIVE KeysOf(_, _)
KeysOf(pairs, seen) ==
  IF pairs = <<>> THEN <<>>
  ELSE IF Head(pairs).alias \in seen THEN KeysOf(Tail(pairs), seen)
  ELSE <<Head(pairs).alias>> \o KeysOf(Tail(pairs), seen \cup {Head(pairs).alias})

\* pinaliases[alias]
PinsOf(pairs, alias) ==
  [k \in 1..Len(SelectSeq(pairs, LAMBDA c : c.alias = alias)) |->
     SelectSeq(pairs, LAMBDA c : c.alias = alias)[k].pin]

\* picpin[pin][picpin[pin].index(alias)] += "_%s" % pin;
\* <<>> where index raises ValueError
Suffixed(picpin, pin, alias) ==
  IF Index(AliasesOf(picpin, pin), alias) = 0 THEN <<>>
  ELSE [k \in DOMAIN picpin |->
          IF picpin[k].pin # pin THEN picpin[k]
          ELSE [pin |-> pin,
                aliases |-> [j \in DOMAIN picpin[k].aliases |->
                               IF j = Index(picpin[k].aliases, alias)
                               THEN alias \o "_" \o pin
                               ELSE picpin[k].aliases[j]]]]

\* "for pin in pins: ..."
RECURSIVE SuffixPins(_, _, _)
SuffixPins(picpin, pins, alias) ==
  IF pins = <<>> \/ picpin = <<>> THEN picpin
  ELSE SuffixPins(Suffixed(picpin, Head(pins), alias), Tail(pins), alias)

\* "for alias,pins in pinaliases.items(): if len(pins) > 1: ..."
RECURSIVE SuffixAliases(_, _, _)
SuffixAliases(picpin, pairs, keys) ==
  IF keys = <<>> \/ picpin = <<>> THEN picpin
  ELSE SuffixAliases(IF Len(PinsOf(pairs, Head(keys))) > 1
                     THEN SuffixPins(picpin, PinsOf(pairs, Head(keys)), Head(keys))
                     ELSE picpin,
                     pairs, Tail(keys))

\* the body of "for pic,picpin in pinmap.items()"
Aliased(picpin) ==
  SuffixAliases(Renamed(picpin), Appended(Renamed(picpin), 1),
                KeysOf(Appended(Renamed(picpin), 1), {}))


-----------------------------------------------------------------------------
\* The .pic files and the current pinmap of a run of pinmap_create.py

Pin(vpins) == [comments |-> <<>>, vpins |-> vpins]
NumberedPin(comment, vpins) == [comments |-> <<comment>>, vpins |-> vpins]

\* .pic files: a 16F1707 with its pin 8, the same chip in another release,
\* a 12F with port B names, two pins sharing aliases, a chip with the
\* oscillator and reset pins, a file without port pins, a file with a
\* comment of one word
PicFiles ==
  << [root |-> "edc/16c5x", file |-> "PIC16F1707.PIC",
      pic |-> << Pin(<<"RA0", "AN0", "C1IN+", "ICSPDAT">>),
                 NumberedPin(<<"pin", "8">>, <<"AN9", "RC6", "C2IN-">>) >>],
     [root |-> "edc/16xxxx", file |-> "pic16f1707.pic",
      pic |-> << Pin(<<"RA0", "AN0">>), Pin(<<"VDD">>) >>],
     [root |-> "edc/16xxxx", file |-> "PIC12F629.PIC",
      pic |-> << Pin(<<"GP0", "RB0", "AN0">>), Pin(<<"GP1", "AN1", "_MCLR">>) >>],
     [root |-> "edc/16xxxx", file |-> "PIC16F88.PIC",
      pic |-> << Pin(<<"RB1", "SDA", "INT1", "IOCB1">>),
                 Pin(<<"SDA", "RC4", "SDI RX">>),
                 Pin(<<"RC4", "NC">>) >>],
     [root |-> "edc/16xxxx", file |-> "PIC16F628.PIC",
      pic |-> << Pin(<<"RA7", "OSC1", "CLKI", "ICDCLK">>),
                 Pin(<<"RA6", "OSC2", "CLKO", "ICSPCLK">>),
                 Pin(<<"RA5", "MCLR/VPP", "VPP">>) >>],
     [root |-> "edc/16xxxx", file |-> "PIC16F84.PIC",
      pic |-> << Pin(<<"VDD">>), Pin(<<"VSS">>) >>],
     [root |-> "edc/18xxxx", file |-> "PIC18F2439.PIC",
      pic |-> << NumberedPin(<<"12">>, <<"PWM1", "RC2">>), Pin(<<"PWM2">>) >>],
     [root |-> "edc/18xxxx", file |-> "PIC18F452.PIC",
      pic |-> << NumberedPin(<<"unused">>, <<"RA0">>) >>] >>

\* picname = os.path.splitext(file)[0][3:].upper()
PicName(file) == Upper(From3(SplitextRoot(file)))

\* the files with an index in S, in the order of the walk (dirs.sort(),
\* files.sort())
RECURSIVE Walk(_, _, _)
Walk(files, S, k) ==
  IF k > Len(files) THEN <<>>
  ELSE (IF k \in S THEN <<files[k]>> ELSE <<>>) \o Walk(files, S, k + 1)

\* the files os.walk finds: some of the tree
Trees ==
  {Walk(PicFiles, S, 1) : S \in SubsetsUpTo(DOMAIN PicFiles, MaxFiles)}

\* the current pinmap
OldPinmaps ==
  {EmptyDict,
   [x \in {"16F84"} |-> << [pin |-> "RA0", aliases |-> <<"RA0", "AN0">>] >>]}

\* blink-a-led.py is not running
BlinkIdle ==
  /\ devs = <<>>
  /\ devfile = EmptyDict
  /\ devspec = EmptyDict
  /\ tools = GoodTools
  /\ var = EmptyDict
  /\ fusedef = EmptyDict
  /\ pc = "idle"
  /\ idx = 1
  /\ blink_pin = ""
  /\ osctype = ""
  /\ oscword = ""
  /\ sample_count = 0
  /\ current_sample_count = 0
  /\ ret = ""
  /\ pending = <<>>
  /\ counter = 0
  /\ pgmname = ""
  /\ cwd = EmptyDict
  /\ dst = EmptyDict
  /\ calls = <<>>

\* the mainline up to the submission of the workers in collect_pinmap()
PinmapInit ==
  /\ BlinkIdle
  /\ to_do \in Trees
  /\ pinmap_old \in OldPinmaps
  /\ disk \in {{TRUE}, {TRUE, FALSE}}
  /\ completed = {}
  /\ pinmap = EmptyDict
  /\ ppc = "collect"
  /\ fpinmapnew = Absent
  /\ fpinaliases = Absent

\* fs.result() of the i-th future
Result(i) ==
  create_pinmap_pic(PicName(to_do[i].file), to_do[i].pic, pinmap_old)

\* "for fs in futures.as_completed(to_do)": the i-th future is the next to
\* complete; res = fs.result(); pinmap[res[0]] = res[1]
Complete(i) ==
  /\ ppc = "collect"
  /\ i \in DOMAIN to_do \ completed
  /\ IF Result(i).err
     THEN ppc' = "raised" /\ UNCHANGED <<completed, pinmap>>
     ELSE /\ pinmap' = DictSet(pinmap, Result(i).key, Result(i).value)
          /\ completed' = completed \cup {i}
          /\ ppc' = "collect"
  /\ UNCHANGED <<BlinkState, to_do, pinmap_old, disk, fpinmapnew, fpinaliases>>

\* return pinmap
Collected ==
  /\ ppc = "collect"
  /\ completed = DOMAIN to_do
  /\ ppc' = "build_pinmap_new"
  /\ UNCHANGED <<BlinkState, to_do, completed, pinmap, pinmap_old, disk,
                 fpinmapnew, fpinaliases>>

\* build_pinmap_new(pinmap) and the test of its result in the mainline
BuildPinmapNew ==
  /\ ppc = "build_pinmap_new"
  /\ IF "None" \in DOMAIN pinmap /\ Cardinality(DOMAIN pinmap) > 1
     THEN ppc' = "raised" /\ UNCHANGED fpinmapnew     \* sorted(): TypeError
     ELSE \E ok \in disk :
            IF ~ok
            THEN ppc' = "exit" /\ UNCHANGED fpinmapnew    \* IOError, return 0
            ELSE IF "None" \in DOMAIN pinmap              \* None.keys()
            THEN /\ fpinmapnew' = [state |-> "partial", pics |-> <<>>]
                 /\ ppc' = "raised"
            ELSE /\ fpinmapnew' = WriteFile(pinmap)
                 /\ ppc' = IF DOMAIN pinmap = {} THEN "raised"
                           ELSE "build_pinaliases"
  /\ UNCHANGED <<BlinkState, to_do, completed, pinmap, pinmap_old, disk,
                 fpinaliases>>

\* build_pinaliases(pinmap) and the test of its result in the mainline
BuildPinaliases ==
  /\ ppc = "build_pinaliases"
  /\ IF \/ "None" \in DOMAIN pinmap                       \* None.items()
        \/ \E pic \in DOMAIN pinmap :
             pinmap[pic] # <<>> /\ Aliased(pinmap[pic]) = <<>>  \* ValueError
     THEN ppc' = "raised" /\ UNCHANGED <<pinmap, fpinaliases>>
     ELSE /\ pinmap' = [pic \in DOMAIN pinmap |-> Aliased(pinmap[pic])]
          /\ \E ok \in disk :
               IF ~ok
               THEN ppc' = "exit" /\ UNCHANGED fpinaliases
               ELSE /\ fpinaliases' = WriteFile(pinmap')
                    /\ ppc' = "end"
  /\ UNCHANGED <<BlinkState, to_do, completed, pinmap_old, disk, fpinmapnew>>

PinmapNext ==
  \/ \E i \in 1..Len(to_do) : Complete(i)
  \/ Collected
  \/ BuildPinmapNew
  \/ BuildPinaliases

SpecPinmap == PinmapInit /\ [][PinmapNext]_vars


-----------------------------------------------------------------------------
\* the pinmap collect_pinmap() returns when the futures are yielded in the
\* order of their submission, from the k-th
RECURSIVE InOrder(_, _)
InOrder(k, map) ==
  IF k > Len(to_do) THEN map
  ELSE InOrder(k + 1, DictSet(map, Result(k).key, Result(k).value))

\* the entries of a file are in the order of the PIC names
SortedByPic(f) ==
  \A k \in 1..(Len(f.pics) - 1) : StrLess(f.pics[k].pic, f.pics[k + 1].pic)

\* C15: pinmap.py does not depend on the order in which the workers
\* complete: once build_pinmap_new has written it, it holds the entries that
\* the order of submission gives, sorted by PIC name, also when workers
\* returned (None, None) or several files have the same PIC name.
C15_OutputIndependentOfOrder ==
  ppc \in {"build_pinaliases", "end"}
  => /\ fpinmapnew = WriteFile(InOrder(1, EmptyDict))
     /\ SortedByPic(fpinmapnew)

-----------------------------------------------------------------------------
\* the pins create_pinmap_pic found in the file of the i-th call
PinsFound(i) == Pins(PicName(to_do[i].file), to_do[i].pic, 1, 0, <<>>).pinlist

\* the aliases pinmap_create.py documents as skipped
SkippedKind(alias) ==
  \/ alias \in {"ICSPDAT", "ICSPCLK", "ICDDAT", "ICDCLK", "CLKI", "CLKO"}
  \/ IsSubstr("MCLR", alias)
  \/ StartsWith(alias, "IOC")
  \/ StartsWith(alias, "INT")

\* C17: the alias list create_pinmap_pic builds for a pin never holds an
\* alias of a skipped kind: ICSPDAT, ICSPCLK, ICDDAT, ICDCLK, CLKI, CLKO,
\* a name containing MCLR, IOCxx or INTxx.
C17_SkippedKindsNeverListed ==
  \A i \in completed :
    \A k \in DOMAIN PinsFound(i) :
      \A j \in DOMAIN PinsFound(i)[k].aliases :
        ~SkippedKind(PinsFound(i)[k].aliases[j])

-----------------------------------------------------------------------------
\* the aliases of all pins of a PIC, pin by pin
AllAliases(picpin) ==
  [k \in DOMAIN Appended(picpin, 1) |-> Appended(picpin, 1)[k].alias]

\* C18: after build_pinaliases no alias name appears more than once among
\* the aliases of all pins of a PIC.
C18_NoDuplicateAlias ==
  ppc = "end"
  => \A pic \in DOMAIN pinmap :
       \A a, b \in DOMAIN AllAliases(pinmap[pic]) :
         a # b => AllAliases(pinmap[pic])[a] # AllAliases(pinmap[pic])[b]

-----------------------------------------------------------------------------
\* C21

\* build_sample is about to be called for the chip being processed
AtBuild == pc = "create_sample" /\ pending # <<>>

\* the device file of the chip being processed
CurrentFile == devfile[devs[idx]]

\* the file has a fuse_def line of a group stored under the key, and every
\* keyword stored for it is the first word of a line of the file
GroupFoundIn(f, key, kwds) ==
  /\ \E n \in 1..Len(f) :
       /\ Len(f[n]) > 2 /\ f[n][1] = "pragma" /\ f[n][2] = "fuse_def"
       /\ FuseKey(f[n][3]) = key
  /\ \A k \in 1..Len(kwds) : \E n \in 1..Len(f) : Len(f[n]) > 0 /\ f[n][1] = kwds[k]

\* the file has a line that makes scan_devfile set the entry of var
MarkerFoundIn(f, key, value) ==
  \/ key = "ircfwidth" /\ value = 0
  \/ \E n \in 1..Len(f) :
       LET v == ScanMarker(f[n], EmptyDict)
       IN  key \in DOMAIN v /\ v[key] = value

OnlyCurrentChip ==
  AtBuild =>
    /\ var = ScanResult.var
    /\ fusedef = ScanResult.fusedef
    /\ \A key \in DOMAIN fusedef : GroupFoundIn(CurrentFile, key, fusedef[key])
    /\ \A key \in DOMAIN var : MarkerFoundIn(CurrentFile, key, var[key])

\* C21: at every build_sample call of main(), var and fusedef hold exactly
\* what scan_devfile finds in the device file of the chip being processed,
\* every one of their entries being found in that file, whatever chips were
\* processed or skipped before; devspec never changes after startup.
C21_NoScanResultSurvives == []OnlyCurrentChip /\ [][devspec' = devspec]_vars

\* a chip with fewer groups and markers is built after a richer chip was
\* scanned and the chip between them was skipped by the validator
C21_Witness ==
  /\ AtBuild /\ idx = 3
  /\ scan_devfile(devfile[devs[1]]).fusedef # fusedef
  /\ "wdt" \in DOMAIN scan_devfile(devfile[devs[1]]).fusedef
  /\ "wdt" \notin DOMAIN fusedef
  /\ "usb_bdt" \in DOMAIN scan_devfile(devfile[devs[1]]).var
  /\ "usb_bdt" \notin DOMAIN var
  /\ \E i, j \in DOMAIN calls :
       /\ i < j
       /\ calls[i].fn = "build_sample" /\ calls[i].file = Pic1
       /\ calls[j].fn = "validate_jalfile" /\ calls[j].file = Dev2
       /\ calls[j].ret = "False"

-----------------------------------------------------------------------------
\* C22

\* the build_sample call whose file call j validates or compiles: the last
\* build_sample before j
BuildOf(j) ==
  CHOOSE i \in 1..j :
    /\ calls[i].fn = "build_sample"
    /\ \A k \in (i + 1)..j : calls[k].fn # "build_sample"

\* call j is the validation or the compilation of a sample, returning False
SampleFailed(j) ==
  /\ calls[j].ret = "False"
  /\ ValidatesSample(j) \/ calls[j].fn = "compile_sample"

\* call k synthesizes the sample of call i again: same chip, same variant,
\* same oscword
SameSample(i, k) ==
  /\ calls[k].fn = "build_sample"
  /\ calls[k].file = calls[i].file
  /\ calls[k].osctype = calls[i].osctype
  /\ calls[k].oscword = calls[i].oscword

\* C22: within one run, once the validation or the compilation of a sample
\* (same chip, same variant, same oscword) has returned False, build_sample
\* is never called for that sample again, so it is not validated or compiled
\* again either.
C22_FailedNeverRetried ==
  \A j \in DOMAIN calls :
    SampleFailed(j) => \A k \in DOMAIN calls : k > j => ~SameSample(BuildOf(j), k)

-----------------------------------------------------------------------------
\* C23

\* the oscword main() is about to pass to build_sample
PassedOscword == pending[1].oscword

\* the word is a keyword of the scanned group stored under the key
InGroup(word, key) == key \in DOMAIN fusedef /\ word \in Range(fusedef[key])

\* C23: the oscword of every build_sample call of main() is not empty and
\* is a keyword of the scanned fuse groups of the chip: a keyword of the OSC
\* group, or F4MHZ out of the IOSCFS group when the chip has no OSC group.
C23_OscwordIsScannedKeyword ==
  AtBuild =>
    /\ PassedOscword # ""
    /\ IF "osc" \in DOMAIN fusedef
       THEN InGroup(PassedOscword, "osc")
       ELSE PassedOscword = "F4MHZ" /\ InGroup("F4MHZ", "ioscfs")

\* a sample is built for a chip without OSC group
C23_Witness ==
  /\ AtBuild
  /\ "osc" \notin DOMAIN fusedef
  /\ PassedOscword = "F4MHZ"
  /\ oscword = ""

\* a sample is built with a keyword of the OSC group other than the one
\* main() selected
C23_WitnessOsc ==
  /\ AtBuild
  /\ InGroup(PassedOscword, "osc")
  /\ PassedOscword # oscword

-----------------------------------------------------------------------------
\* C24

\* the fuse groups other than OSC for which build_sample writes a directive
\* when the group was scanned
ScannedFuses == AuxFuses \cup {"FOSC2", "RSTOSC", "IOSCFS"}

\* the directives of the sample for the fuse name keywords of its group
NamesOffered(fuse) == DirectiveWords(cwd[LastCall.ret], fuse) \subseteq Offered(fuse)

\* C24: every "pragma target <FUSE> <keyword>" line build_sample writes for
\* a fuse group scanned from the chip names a keyword of that group's
\* scanned list; in particular WDT CONTROL is written only if CONTROL is in
\* the WDT group and FOSC2 ON only if ON is in the FOSC2 group.
C24_DirectiveKeywordInGroup ==
  SampleBuilt
  => \A fuse \in ScannedFuses :
       FuseKey(fuse) \in DOMAIN fusedef => NamesOffered(fuse)

-----------------------------------------------------------------------------
\* C25

\* the sample files whose compilation returned True
CompiledFiles == {calls[j].file : j \in Successes}

\* the sample of build_sample call i was compiled successfully and counted
CountedSample(i) ==
  /\ Synthesized(i)
  /\ i + 2 \in Successes
  /\ calls[i + 2].file = calls[i].ret

\* C25: the count main() returns is the number of distinct sample files
\* that compiled cleanly, and no sample (same chip, same variant, same
\* oscword) is built and counted more than once.
C25_CountIsDistinctFiles ==
  pc = "done" =>
    /\ sample_count = Cardinality(CompiledFiles)
    /\ \A i, k \in DOMAIN calls :
         i < k /\ CountedSample(i) /\ SameSample(i, k) => ~CountedSample(k)

-----------------------------------------------------------------------------
\* C26

\* call j is a call of compile_sample for the sample name
CompilesName(j, name) == calls[j].fn = "compile_sample" /\ calls[j].file = name

\* the sample names compile_sample was called for
CompiledNames == {calls[j].file : j \in {i \in DOMAIN calls : calls[i].fn = "compile_sample"}}

\* the most recent call of compile_sample for the name
LastCompile(name) ==
  CHOOSE j \in DOMAIN calls :
    /\ CompilesName(j, name)
    /\ \A k \in DOMAIN calls : k > j => ~CompilesName(k, name)

\* every call of compile_sample so far has returned
AllCompilesReturned ==
  \A j \in DOMAIN calls : calls[j].fn = "compile_sample" => calls[j].ret # "raise"

=========================================================================
